---- MODULE Spec2Model ----
(***************************************************************************)
(* Govly backend: the intent router (smart_chat), its clarification gate   *)
(* (should_trigger_rag), the intent classifier, the SEA-LION completion    *)
(* client and the field deduplication pass of extract_form.                *)
(*                                                                         *)
(* Text is modelled as a sequence of one-character strings, so that the    *)
(* string operations of the source (lower, split, substring tests, regex   *)
(* substitutions) are computed and not assumed.                            *)
(***************************************************************************)
EXTENDS Integers, Sequences, FiniteSets, TLC

VARIABLES
    gate,       \* GateSpec: the running/finished call of should_trigger_rag
    apiKey,     \* process environment: SEA_LION_API_KEY is set
    chains,     \* utils/chain_utils.py: the module-level singletons built so far
    call,       \* the smart_chat request being served and its outcome
    llm,        \* LlmSpec: the running/finished call of SimpleSeaLionLLM._call
    form,       \* FormSpec: the extract_form request being served and its outcome
    norm,       \* NormSpec: the running/finished calls of normalize_field_name
    parse,      \* ParseSpec: the running/finished call of try_parse_json
    fill        \* FillSpec: the fill_form request being served and its outcome

routerVars == <<apiKey, chains, call>>

pureVars == <<norm, parse>>

vars == <<gate, apiKey, chains, call, llm, form, norm, parse, fill>>

\* Python's None
None == "None"

\* The idle value of a component's call record
NoCall == [pc |-> "idle"]

(***************************************************************************)
(* Text helpers                                                            *)
(***************************************************************************)

\* str.lower() on the characters the model uses
LowerChar(c) ==
    CASE c = "A" -> "a" [] c = "H" -> "h" [] c = "I" -> "i" [] c = "N" -> "n"
      [] c = "O" -> "o" [] c = "S" -> "s" [] c = "T" -> "t" [] c = "W" -> "w"
      [] c = "Y" -> "y" [] c = "E" -> "e"
      [] c = "U+00C0" -> "U+00E0" [] c = "U+1ECC" -> "U+1ECD"
      [] OTHER -> c

Lower(s) == [i \in 1..Len(s) |-> LowerChar(s[i])]

\* str.isspace() on the characters the model uses
IsSpace(c) == c \in {" ", "\t", "\n"}

\* len(s.split()): the number of maximal runs of non-whitespace characters
SplitLen(s) ==
    Cardinality({i \in 1..Len(s) : ~IsSpace(s[i]) /\ (i = 1 \/ IsSpace(s[i-1]))})

\* Python's `sub in s` for strings
Contains(s, sub) ==
    \E i \in 1..(Len(s) - Len(sub) + 1) : SubSeq(s, i, i + Len(sub) - 1) = sub

(***************************************************************************)
(* Inputs                                                                  *)
(***************************************************************************)

MsgShowHousing == <<"s", "h", "o", "w", " ", "m", "e", " ", "h", "o", "u", "s", "i", "n", "g", " ", "p", "o", "l", "i", "c", "i", "e", "s">>
MsgINeedHelp == <<"I", " ", "n", "e", "e", "d", " ", "h", "e", "l", "p">>
MsgHelp == <<"h", "e", "l", "p">>
MsgRenew == <<"r", "e", "n", "e", "w", " ", "m", "y", " ", "p", "a", "s", "s", "p", "o", "r", "t">>
MsgApply == <<"a", "p", "p", "l", "y", " ", "f", "o", "r", " ", "b", "u", "s", "i", "n", "e", "s", "s", " ", "l", "i", "c", "e", "n", "s", "e", " ", "f", "o", "r", "m">>
MsgWhat == <<"W", "h", "a", "t", " ", "a", "r", "e", " ", "t", "h", "e", " ", "h", "o", "u", "s", "i", "n", "g", " ", "r", "e", "q", "u", "i", "r", "e", "m", "e", "n", "t", "s">>
MsgEmpty == <<>>

\* Non-empty user messages
Messages == {MsgShowHousing, MsgINeedHelp, MsgHelp, MsgRenew, MsgApply, MsgWhat}

\* The largest number of user messages in a conversation context
MaxUserTurns == 6

\* A conversation context with n user messages, each answered by the assistant
RECURSIVE Context(_)
Context(n) ==
    IF n = 0 THEN <<>>
    ELSE Context(n - 1) \o <<[role |-> "user"], [role |-> "assistant"]>>

Contexts == {Context(n) : n \in 0..MaxUserTurns}

\* The response_type strings the classifier may return ("summary" is not one
\* the router knows)
ResponseTypes == {"ragLink", "ragForm", "agency", "general", "summary"}

(***************************************************************************)
(* Clarification gate: should_trigger_rag                                  *)
(***************************************************************************)

vague_keywords ==
    { <<"h", "e", "l", "p">>,
      <<"i", "n", "f", "o", "r", "m", "a", "t", "i", "o", "n">>,
      <<"w", "h", "a", "t">>,
      <<"h", "o", "w">>,
      <<"n", "e", "e", "d">>,
      <<"w", "a", "n", "t">>,
      <<"a", "b", "o", "u", "t">>,
      <<"q", "u", "e", "s", "t", "i", "o", "n">> }

\* The names `from simple_llm import ...` can bind: the module defines the
\* class SimpleSeaLionLLM and imports the rest; it has no send_to_sealion.
SimpleLlmExports ==
    {"requests", "Any", "Dict", "List", "Optional", "Union", "os", "time",
     "LLM", "CallbackManagerForLLMRun", "Field", "SimpleSeaLionLLM"}

\* The replies of the confidence check
ReplyYes == <<"Y", "E", "S">>
ReplyNo == <<"N", "O">>
GateReplies == {ReplyYes, ReplyNo}

\* The replies a call can observe: none when the import of the client fails
GateRepliesSeen ==
    IF "send_to_sealion" \in SimpleLlmExports THEN GateReplies ELSE {<<>>}

\* The turn-0 rule: first turn and a short or vague message
MutVagueLessThan3(message) ==
    \/ SplitLen(message) < 3
    \/ \E word \in vague_keywords : Contains(Lower(message), word)

IsVague(message) ==
    \/ SplitLen(message) <= 3
    \/ \E word \in vague_keywords : Contains(Lower(message), word)

\* The except branch: rule 4
MutFallbackFromTurnOne(response_type, conversation_turns) ==
    response_type \in {"ragLink", "ragForm"} /\ conversation_turns >= 1

GateFallback(response_type, conversation_turns) ==
    response_type \in {"ragLink", "ragForm"} /\ conversation_turns >= 2

\* The turn cap rule
MutTurnCapStrict(conversation_turns, max_turns) == conversation_turns > max_turns

TurnCapReached(conversation_turns, max_turns) == conversation_turns >= max_turns

\* should_trigger_rag: the value returned, the number of completion calls made
\* and the rule that decided.  `reply` is what the completion service would
\* answer to the confidence check.
should_trigger_rag(message, response_type, conversation_turns, max_turns, reply) ==
    IF conversation_turns = 0 /\ IsVague(message)
    THEN [ret |-> FALSE, completion_calls |-> 0, rule |-> "vague"]
    ELSE IF TurnCapReached(conversation_turns, max_turns)
    THEN [ret |-> TRUE, completion_calls |-> 0, rule |-> "cap"]
    ELSE IF "send_to_sealion" \notin SimpleLlmExports
    THEN \* ImportError at `from simple_llm import send_to_sealion`
         [ret |-> GateFallback(response_type, conversation_turns),
          completion_calls |-> 0, rule |-> "fallback"]
    ELSE [ret |-> Contains(Lower(reply), <<"y", "e", "s">>),
          completion_calls |-> 1, rule |-> "confidence"]

(***************************************************************************)
(* Singleton handler objects: utils/chain_utils.py                         *)
(***************************************************************************)

ChainNames == {"intent", "chat", "agency", "rag", "form"}

\* get_<name>_chain(): the instance exists already, or the API key is set and
\* it is built now; otherwise ValueError("SEA_LION_API_KEY not found")
get_chain(name, built, key) ==
    IF name \in built THEN [raised |-> FALSE, built |-> built]
    ELSE IF ~key THEN [raised |-> TRUE, built |-> built]
    ELSE [raised |-> FALSE, built |-> built \cup {name}]

(***************************************************************************)
(* Intent classifier: detect_intent_with_llm / IntentDetectionChain        *)
(***************************************************************************)

\* The tuple returned on every failure: (None, False, [], "general")
SafeDefault ==
    [category |-> None, needs_agency |-> FALSE,
     suggested_agencies |-> <<>>, response_type |-> "general"]

Categories == {None, "housing"}

SuggestedAgencies == {<<>>, <<"Ministry of Construction", "Housing Department">>}

\* What the completion service may answer to the intent prompt: a JSON object
\* of the required shape, a JSON object lacking a required key, prose, or the
\* completion client's fixed apology (every attempt failed).
IntentJsonReplies ==
    {r \in [kind : {"json"}, category : Categories, needs_agency : BOOLEAN,
            suggested_agencies : SuggestedAgencies, response_type : ResponseTypes] :
        (r.suggested_agencies # <<>>) = r.needs_agency}

IntentFailedReplies ==
    [kind : {"json_missing_key"}, category : {"housing"}, needs_agency : {TRUE},
     suggested_agencies : {<<"Ministry of Construction", "Housing Department">>},
     response_type : {"ragLink", "agency"}]
    \cup
    [kind : {"prose", "apology"}, category : {None}, needs_agency : {FALSE},
     suggested_agencies : {<<>>}, response_type : {"general"}]

IntentReplies == IntentJsonReplies \cup IntentFailedReplies

\* The reply the model records when the completion service was not called
NoReply == [kind |-> "not_called"]

IntentOf(reply) ==
    [category |-> reply.category, needs_agency |-> reply.needs_agency,
     suggested_agencies |-> reply.suggested_agencies,
     response_type |-> reply.response_type]

\* IntentDetectionChain.detect_intent: prompt | llm | PydanticOutputParser,
\* with every exception turned into the safe default
MutDetectIntentKeepsReply(reply) == [raised |-> FALSE, value |-> IntentOf(reply)]

detect_intent(reply) ==
    IF reply.kind = "json"
    THEN [raised |-> FALSE, value |-> IntentOf(reply)]
    ELSE [raised |-> FALSE, value |-> SafeDefault]

\* detect_intent_with_llm: get_intent_chain() and detect_intent inside one
\* try/except that returns the safe default
detect_intent_with_llm(built, key, reply) ==
    LET got == get_chain("intent", built, key)
        res == detect_intent(reply)
    IN  IF got.raised
        THEN [raised |-> FALSE, value |-> SafeDefault, built |-> got.built,
              failed |-> TRUE]
        ELSE IF res.raised
        THEN [raised |-> FALSE, value |-> SafeDefault, built |-> got.built,
              failed |-> TRUE]
        ELSE [raised |-> FALSE, value |-> res.value, built |-> got.built,
              failed |-> reply.kind # "json"]

(***************************************************************************)
(* Action handlers                                                         *)
(***************************************************************************)

\* An HTTP response.  A key the payload does not carry is None.
Response(status, response_type, response, results, agency) ==
    [status |-> status, response_type |-> response_type, response |-> response,
     results |-> results, agency |-> agency]

HttpError(status) == Response(status, None, None, None, None)

\* The retrieval collaborator: it fails, or returns a list of documents
Docs == <<"doc1", "doc2", "doc3">>
RetrievalOutcomes ==
    {[kind |-> "error", results |-> <<>>]}
    \cup {[kind |-> "ok", results |-> SubSeq(Docs, 1, n)] : n \in {0, 1, 3}}

\* rag/query.py search_chunks: an exception of the embedding model or of the
\* RPC is not caught
rpc_search_chunks(outcome) ==
    [raised |-> outcome.kind = "error", results |-> outcome.results]

\* rag/match_forms.py search_forms: every exception is caught and [] returned
rpc_search_forms(outcome) ==
    [raised |-> FALSE,
     results |-> IF outcome.kind = "error" THEN <<>> ELSE outcome.results]

\* rag_link_search: {"results": ...}, or HTTPException(500) on any exception
rag_link_search(outcome) ==
    LET r == rpc_search_chunks(outcome)
    IN  IF r.raised THEN [raised |-> TRUE, status |-> 500, results |-> <<>>]
        ELSE [raised |-> FALSE, status |-> 200, results |-> r.results]

\* rag_form_search: {"results": ...}, or HTTPException(500) on any exception
rag_form_search(outcome) ==
    LET r == rpc_search_forms(outcome)
    IN  IF r.raised THEN [raised |-> TRUE, status |-> 500, results |-> <<>>]
        ELSE [raised |-> FALSE, status |-> 200, results |-> r.results]

\* What the narration chain (prompt | llm) does: it returns prose, the
\* completion client's apology, a JSON object with or without the key
\* "explanation", or raises before the completion call (chain_error).
NarrationOutcomes ==
    {"prose", "apology", "json_explanation", "json_no_explanation", "chain_error"}

\* DocumentExplanationChain.explain_documents
rag_chain_explain_documents(narration) ==
    CASE narration = "prose" ->
            [has_explanation |-> TRUE, explanation |-> "narration", completion_calls |-> 1]
      [] narration = "apology" ->
            [has_explanation |-> TRUE, explanation |-> "service_apology", completion_calls |-> 1]
      [] narration = "json_explanation" ->
            [has_explanation |-> TRUE, explanation |-> "narration", completion_calls |-> 1]
      [] narration = "json_no_explanation" ->
            [has_explanation |-> FALSE, explanation |-> None, completion_calls |-> 1]
      [] OTHER ->
            [has_explanation |-> TRUE, explanation |-> "error_apology", completion_calls |-> 0]

\* explain_documents (/api/explain): get_rag_chain() and the chain call inside
\* one try/except that raises HTTPException(500)
explain_documents(built, key, narration) ==
    LET got == get_chain("rag", built, key)
        res == rag_chain_explain_documents(narration)
    IN  IF got.raised
        THEN [raised |-> TRUE, built |-> got.built, has_explanation |-> FALSE,
              explanation |-> None, completion_calls |-> 0]
        ELSE [raised |-> FALSE, built |-> got.built,
              has_explanation |-> res.has_explanation,
              explanation |-> res.explanation,
              completion_calls |-> res.completion_calls]

\* What a structured chain (prompt | llm | parser) with a prompt | llm fallback
\* does: the reply parses; or it does not and the fallback returns the reply's
\* text (prose or the apology); or the fallback call raises as well.
ChainOutcomes == {"parsed", "fallback_prose", "fallback_apology", "fallback_raises"}

ChainText(outcome) ==
    CASE outcome = "parsed" -> "structured_reply"
      [] outcome = "fallback_prose" -> "prose_reply"
      [] OTHER -> "service_apology"

\* chat (/api/chat): get_chat_chain() and ChatChain.chat inside one try/except
\* that raises HTTPException(500)
chat(built, key, outcome) ==
    LET got == get_chain("chat", built, key)
    IN  IF got.raised \/ outcome = "fallback_raises"
        THEN [built |-> got.built, resp |-> HttpError(500)]
        ELSE [built |-> got.built,
              resp |-> Response(200, None, ChainText(outcome), None, None)]

\* choose_agency: get_agency_chain() and AgencySelectionChain.select_agency
\* inside one try/except that raises HTTPException(500)
choose_agency(suggested_agencies, built, key, outcome) ==
    LET got == get_chain("agency", built, key)
        first == IF suggested_agencies = <<>> THEN None ELSE suggested_agencies[1]
    IN  IF got.raised \/ outcome = "fallback_raises"
        THEN [built |-> got.built, resp |-> HttpError(500)]
        ELSE [built |-> got.built,
              resp |-> Response(200, None, ChainText(outcome), None,
                                IF outcome = "parsed" THEN "llm_suggested" ELSE first)]

(***************************************************************************)
(* Router: smart_chat                                                      *)
(***************************************************************************)

\* max_clarification_turns
max_clarification_turns == 5

SelectedAgencies == {None, "Housing Department"}

\* len([msg for msg in conversationContext if msg.get('role') == 'user'])
CountUserTurns(context) ==
    Cardinality({i \in 1..Len(context) : context[i].role = "user"})

\* The response_type the router dispatches on
MutFinalIgnoresGate(llm_response_type, should_use_rag, conversation_turns) ==
    llm_response_type

MutFinalClarifiesThroughCap(llm_response_type, should_use_rag, conversation_turns) ==
    IF /\ conversation_turns <= max_clarification_turns
       /\ llm_response_type \in {"ragLink", "ragForm"}
    THEN "chat"
    ELSE llm_response_type

MutFinalAlwaysClarifies(llm_response_type, should_use_rag, conversation_turns) ==
    IF llm_response_type \in {"ragLink", "ragForm"} THEN "chat" ELSE llm_response_type

FinalResponseType(llm_response_type, should_use_rag, conversation_turns) ==
    IF /\ ~should_use_rag
       /\ conversation_turns < max_clarification_turns
       /\ llm_response_type \in {"ragLink", "ragForm"}
    THEN "chat"
    ELSE llm_response_type

\* Python truthiness of Optional[str]
Truthy(x) == x # None /\ x # ""

MutOfferIgnoresSelected(needs_agency, selected_agency, response_type) ==
    needs_agency /\ response_type = "agency"

ShouldOfferAgency(needs_agency, selected_agency, response_type) ==
    needs_agency /\ ~Truthy(selected_agency) /\ response_type = "agency"

\* The if/elif chain of smart_chat: the handler its branch calls
MutBranchNoElse(response_type, should_offer_agency) ==
    CASE response_type = "ragLink" -> "rag_link_search"
      [] response_type = "ragForm" -> "rag_form_search"
      [] response_type = "agency" /\ should_offer_agency -> "choose_agency"
      [] response_type \in {"general", "chat"} -> "chat"
      [] OTHER -> "none"

BranchOf(response_type, should_offer_agency) ==
    CASE response_type = "ragLink" -> "rag_link_search"
      [] response_type = "ragForm" -> "rag_form_search"
      [] response_type = "agency" /\ should_offer_agency -> "choose_agency"
      [] OTHER -> "chat"

\* The branch without the test of the results: the narration is asked for
\* whatever the search returned
MutNarratesEmpty(search, response_type, built, key, narration) ==
    IF search.raised
    THEN [built |-> built, explain_calls |-> 0, resp |-> HttpError(search.status)]
    ELSE LET ex == explain_documents(built, key, narration)
         IN  IF ex.raised \/ ~ex.has_explanation
             THEN [built |-> ex.built, explain_calls |-> 1, resp |-> HttpError(500)]
             ELSE [built |-> ex.built, explain_calls |-> 1,
                   resp |-> Response(200, response_type, ex.explanation,
                                     search.results, None)]

\* The ragLink / ragForm branch after the search returned
AfterSearch(search, response_type, built, key, narration) ==
    IF search.raised
    THEN [built |-> built, explain_calls |-> 0, resp |-> HttpError(search.status)]
    ELSE IF search.results # <<>>
    THEN LET ex == explain_documents(built, key, narration)
         IN  IF ex.raised
             THEN [built |-> ex.built, explain_calls |-> 1, resp |-> HttpError(500)]
             ELSE IF ~ex.has_explanation
             THEN \* explain_response["explanation"]: KeyError, turned into 500
                  [built |-> ex.built, explain_calls |-> 1, resp |-> HttpError(500)]
             ELSE [built |-> ex.built, explain_calls |-> 1,
                   resp |-> Response(200, response_type, ex.explanation,
                                     search.results, None)]
    ELSE [built |-> built, explain_calls |-> 0,
          resp |-> Response(200, response_type, "nothing_found", <<>>, None)]

\* The dispatch of smart_chat: the handlers called, in order, and the response
Dispatch(response_type, should_offer_agency, intent, built, key, env) ==
    LET branch == BranchOf(response_type, should_offer_agency)
    IN  CASE branch = "rag_link_search" ->
                [handlers |-> <<"rag_link_search">>]
                @@ AfterSearch(rag_link_search(env.retrieval), "ragLink",
                               built, key, env.narration)
          [] branch = "rag_form_search" ->
                [handlers |-> <<"rag_form_search">>]
                @@ AfterSearch(rag_form_search(env.retrieval), "ragForm",
                               built, key, env.narration)
          [] branch = "choose_agency" ->
                [handlers |-> <<"choose_agency">>, explain_calls |-> 0]
                @@ choose_agency(intent.suggested_agencies, built, key, env.chain)
          [] branch = "chat" ->
                [handlers |-> <<"chat">>, explain_calls |-> 0]
                @@ chat(built, key, env.chain)
          [] OTHER ->
                \* not reached: the chain ends with an else
                [handlers |-> <<>>, explain_calls |-> 0, built |-> built,
                 resp |-> Response(200, None, None, None, None)]

\* The outcomes of the collaborators that the branch taken can observe
NoOutcome == "not_called"

EnvsFor(branch) ==
    CASE branch \in {"rag_link_search", "rag_form_search"} ->
            {[retrieval |-> r, narration |-> n, chain |-> NoOutcome] :
                r \in {x \in RetrievalOutcomes : x.results = <<>>}, n \in {NoOutcome}}
            \cup
            {[retrieval |-> r, narration |-> n, chain |-> NoOutcome] :
                r \in {x \in RetrievalOutcomes : x.results # <<>>}, n \in NarrationOutcomes}
      [] OTHER ->
            {[retrieval |-> [kind |-> NoOutcome, results |-> <<>>],
              narration |-> NoOutcome, chain |-> c] : c \in ChainOutcomes}

\* smart_chat with an empty message: HTTPException(422), re-raised
SmartChatRejects ==
    /\ call.pc = "idle"
    /\ \E context \in Contexts, selected_agency \in SelectedAgencies :
          call' = [pc |-> "done",
                   message |-> MsgEmpty,
                   conversation_turns |-> CountUserTurns(context),
                   selected_agency |-> selected_agency,
                   classified |-> FALSE,
                   intent_reply |-> NoReply.kind,
                   intent_failed |-> FALSE,
                   intent_raised |-> FALSE,
                   intent |-> SafeDefault,
                   should_use_rag |-> FALSE,
                   gate_completion_calls |-> 0,
                   response_type |-> None,
                   handlers |-> <<>>,
                   retrieval |-> [kind |-> NoOutcome, results |-> <<>>],
                   narration |-> NoOutcome,
                   chain |-> NoOutcome,
                   explain_calls |-> 0,
                   resp |-> HttpError(422)]
    /\ UNCHANGED <<gate, apiKey, chains, llm, form, pureVars, fill>>

\* smart_chat with a non-empty message: classification, gate, dispatch
SmartChat ==
    /\ call.pc = "idle"
    /\ \E message \in Messages, context \in Contexts,
          selected_agency \in SelectedAgencies,
          intent_reply \in IntentReplies, gate_reply \in GateRepliesSeen :
          LET conversation_turns == CountUserTurns(context)
              di == detect_intent_with_llm(chains, apiKey,
                        IF get_chain("intent", chains, apiKey).raised
                        THEN NoReply ELSE intent_reply)
              intent == di.value
              g == should_trigger_rag(message, intent.response_type,
                                      conversation_turns, max_clarification_turns,
                                      gate_reply)
              response_type == FinalResponseType(intent.response_type, g.ret,
                                                 conversation_turns)
              should_offer_agency == ShouldOfferAgency(intent.needs_agency,
                                                       selected_agency, response_type)
          IN  \E env \in EnvsFor(BranchOf(response_type, should_offer_agency)) :
                LET d == Dispatch(response_type, should_offer_agency, intent,
                                  di.built, apiKey, env)
                IN  /\ call' = [pc |-> "done",
                                message |-> message,
                                conversation_turns |-> conversation_turns,
                                selected_agency |-> selected_agency,
                                classified |-> TRUE,
                                intent_reply |-> IF get_chain("intent", chains, apiKey).raised
                                                 THEN NoReply.kind ELSE intent_reply.kind,
                                intent_failed |-> di.failed,
                                intent_raised |-> di.raised,
                                intent |-> intent,
                                should_use_rag |-> g.ret,
                                gate_completion_calls |-> g.completion_calls,
                                response_type |-> response_type,
                                handlers |-> d.handlers,
                                retrieval |-> env.retrieval,
                                narration |-> env.narration,
                                chain |-> env.chain,
                                explain_calls |-> d.explain_calls,
                                resp |-> d.resp]
                    /\ chains' = d.built
    /\ UNCHANGED <<gate, apiKey, llm, form, pureVars, fill>>

\* The response has been sent; the process waits for the next request
Respond ==
    /\ call.pc = "done"
    /\ call' = NoCall
    /\ UNCHANGED <<gate, apiKey, chains, llm, form, pureVars, fill>>

Init ==
    /\ gate = NoCall
    /\ apiKey \in BOOLEAN
    /\ chains = {}
    /\ call = NoCall
    /\ llm = NoCall
    /\ form = NoCall
    /\ norm = NoCall
    /\ parse = NoCall
    /\ fill = NoCall

Next == SmartChatRejects \/ SmartChat \/ Respond

Spec == Init /\ [][Next]_vars

\* One call of the gate with arbitrary arguments
GateCall ==
    /\ gate.pc = "idle"
    /\ \E message \in Messages, response_type \in ResponseTypes,
          conversation_turns \in 0..MaxUserTurns, max_turns \in 0..MaxUserTurns,
          reply \in GateReplies :
          gate' = [pc |-> "returned",
                   message |-> message,
                   reply |-> reply,
                   response_type |-> response_type,
                   conversation_turns |-> conversation_turns,
                   max_turns |-> max_turns,
                   out |-> should_trigger_rag(message, response_type,
                                              conversation_turns, max_turns, reply)]
    /\ UNCHANGED <<routerVars, llm, form, pureVars, fill>>

GateReturn ==
    /\ gate.pc = "returned"
    /\ gate' = NoCall
    /\ UNCHANGED <<routerVars, llm, form, pureVars, fill>>

GateInit ==
    /\ gate = NoCall
    /\ apiKey = TRUE
    /\ chains = {}
    /\ call = NoCall
    /\ llm = NoCall
    /\ form = NoCall
    /\ norm = NoCall
    /\ parse = NoCall
    /\ fill = NoCall

GateNext == GateCall \/ GateReturn

GateSpec == GateInit /\ [][GateNext]_vars

(***************************************************************************)
(* simple_llm.py: SimpleSeaLionLLM._call, one step per HTTP request        *)
(***************************************************************************)

\* int(os.getenv("SEA_LION_RETRIES", "3"))
DefaultRetries == 3

\* Depth of nested call_model frames at which the interpreter refuses
\* another frame (RecursionError); a bound standing for the recursion limit
MaxDepth == 2

\* Model names, cut at the places the code tests ("SEA-LION", "70B", "-IT")
PrimaryModel == <<"aisingapore/Llama-", "SEA-LION", "-v3-", "70B", "-IT">>

SmallModel == <<"aisingapore/Gemma-", "SEA-LION", "-v3-", "9B", "-IT">>

OtherModel == <<"other/model">>

\* os.getenv("SEA_LION_FALLBACK_MODEL", "")
FallbackEnvs == {<<>>, SmallModel, PrimaryModel}

\* What GET /models can answer
Listings ==
    {[status |-> "error", models |-> <<>>]} \cup
    {[status |-> "ok", models |-> m] :
        m \in {<<>>, <<PrimaryModel>>, <<OtherModel, SmallModel>>,
               <<PrimaryModel, SmallModel>>}}

\* What POST /chat/completions can answer
FailureOutcomes == {"empty", "malformed", "5xx", "4xx", "transport", "timeout"}

Completion == "completion"

FinalFallbackText ==
    "I'm experiencing connectivity issues with the AI service. This appears to be a temporary service outage. Please try again in a few minutes. If the issue persists, the service provider may be experiencing downtime."

EndsWith(s, suffix) ==
    /\ Len(s) >= Len(suffix)
    /\ SubSeq(s, Len(s) - Len(suffix) + 1, Len(s)) = suffix

NoModelsCached == [set |-> FALSE, models |-> <<>>]

\* fetch_models: the list cached by this call of _call, else one GET; only a
\* 200 answer fills the cache
fetch_models(available_models, listing) ==
    IF available_models.set
    THEN [models |-> available_models.models, available_models |-> available_models,
          gets |-> 0]
    ELSE IF listing.status = "ok"
    THEN [models |-> listing.models,
          available_models |-> [set |-> TRUE, models |-> listing.models],
          gets |-> 1]
    ELSE [models |-> <<>>, available_models |-> available_models, gets |-> 1]

IsSeaLionIT(m) == Contains(m, <<"SEA-LION">>) /\ EndsWith(m, <<"-IT">>)

IsSmallSeaLionIT(m) == IsSeaLionIT(m) /\ ~Contains(m, <<"70B">>)

\* candidate = preferred[0] if preferred else (models[0] if models else None)
InvalidModelCandidate(models) ==
    LET preferred == SelectSeq(models, IsSeaLionIT)
    IN  IF preferred # <<>> THEN preferred[1]
        ELSE IF models # <<>> THEN models[1] ELSE <<>>

\* fallback_model = candidates[0] if candidates else (models[0] if models else "")
DiscoverFallback(models) ==
    LET candidates == SelectSeq(models, IsSmallSeaLionIT)
    IN  IF candidates # <<>> THEN candidates[1]
        ELSE IF models # <<>> THEN models[1] ELSE <<>>

\* The try body of call_model for an answer that is not "invalid model"
CallModelBody(outcome) ==
    CASE outcome = "ok"        -> [exc |-> FALSE, value |-> Completion]
      [] outcome = "empty"     -> [exc |-> FALSE, value |-> ""]
      [] outcome = "4xx"       -> [exc |-> FALSE, value |-> None]
      [] outcome = "malformed" -> [exc |-> TRUE, value |-> None]
      [] outcome = "5xx"       -> [exc |-> TRUE, value |-> None]
      [] outcome = "transport" -> [exc |-> TRUE, value |-> None]
      [] outcome = "timeout"   -> [exc |-> TRUE, value |-> None]

MutCallModelNoExcept(outcome) ==
    CallModelBody(outcome)

\* call_model: "except Exception" turns every exception of the body into None
call_model(outcome) ==
    IF CallModelBody(outcome).exc
    THEN [exc |-> FALSE, value |-> None]
    ELSE CallModelBody(outcome)

\* The requests to GET /models counted after a listing was obtained stop at
\* this number
MaxRequeries == 2

\* What the process remembers of the listings between two calls of _call:
\* nothing is kept by the code, the two fields only observe the requests
ProcessOf(l) ==
    IF "had_listing" \in DOMAIN l
    THEN [had_listing |-> l.had_listing, requeries |-> l.requeries]
    ELSE [had_listing |-> FALSE, requeries |-> 0]

\* One evaluation of fetch_models accounted for
Listed(l, f) ==
    [l EXCEPT !.listing_gets = @ + f.gets,
              !.available_models = f.available_models,
              !.requeries = IF l.had_listing /\ f.gets = 1 /\ @ < MaxRequeries
                            THEN @ + 1 ELSE @,
              !.had_listing = @ \/ (f.gets = 1 /\ f.available_models.set)]

\* The model the running loop passes to call_model
LoopModel(l) == IF l.phase = "primary" THEN PrimaryModel ELSE l.fallback_model

\* Lines 126-149: pick the fallback model and enter its loop, or apologise
StartFallback(l, listing) ==
    LET discover == l.fallback_model = <<>>
        f  == fetch_models(l.available_models, listing)
        fb == IF discover THEN DiscoverFallback(f.models) ELSE l.fallback_model
        l1 == IF discover
              THEN [Listed(l, f) EXCEPT !.fallback_model = fb]
              ELSE l
    IN  IF fb # <<>> /\ fb # PrimaryModel
        THEN [l1 EXCEPT !.phase = "fallback", !.attempt = 0, !.depth = 0,
                        !.model_name = fb]
        ELSE [l1 EXCEPT !.pc = "done", !.ret = FinalFallbackText]

\* The loop body after call_model has answered at the top level
AttemptDone(l, result, listing) ==
    IF result.exc
    THEN [l EXCEPT !.pc = "done", !.raised = TRUE]
    ELSE IF Truthy(result.value)
    THEN [l EXCEPT !.pc = "done", !.ret = result.value]
    ELSE IF l.attempt < l.max_retries
    THEN [l EXCEPT !.attempt = @ + 1, !.depth = 0, !.model_name = LoopModel(l)]
    ELSE IF l.phase = "primary"
    THEN StartFallback(l, listing)
    ELSE [l EXCEPT !.pc = "done", !.ret = FinalFallbackText]

\* One POST accounted for
Posted(l) ==
    [l EXCEPT !.posts = @ + 1,
              !.primary_attempts = IF l.phase = "primary" /\ l.depth = 0
                                   THEN @ + 1 ELSE @]

LlmCall ==
    /\ llm.pc = "idle"
    /\ \E max_retries \in 0..DefaultRetries, fallback_model \in FallbackEnvs :
          llm' = [pc |-> "call_model", phase |-> "primary",
                  max_retries |-> max_retries, fallback_model |-> fallback_model,
                  model_name |-> PrimaryModel, attempt |-> 0, depth |-> 0,
                  available_models |-> NoModelsCached,
                  posts |-> 0, primary_attempts |-> 0, listing_gets |-> 0,
                  ok_posts |-> 0, retryable_only |-> TRUE,
                  had_listing |-> ProcessOf(llm).had_listing,
                  requeries |-> ProcessOf(llm).requeries,
                  ret |-> None, raised |-> FALSE]
    /\ UNCHANGED <<gate, routerVars, form, pureVars, fill>>

\* 200 with a non-empty completion
PostOk ==
    /\ llm.pc = "call_model"
    /\ llm' = AttemptDone([Posted(llm) EXCEPT !.ok_posts = @ + 1,
                                              !.retryable_only = FALSE],
                          call_model("ok"), [status |-> "error", models |-> <<>>])
    /\ UNCHANGED <<gate, routerVars, form, pureVars, fill>>

\* Any other answer but "invalid model"
PostFails ==
    /\ llm.pc = "call_model"
    /\ \E outcome \in FailureOutcomes, listing \in Listings :
          llm' = AttemptDone([Posted(llm) EXCEPT
                                 !.retryable_only = @ /\ outcome \in {"5xx", "transport"}],
                             call_model(outcome), listing)
    /\ UNCHANGED <<gate, routerVars, form, pureVars, fill>>

\* 400 "Invalid model name": list the models and call call_model again
PostInvalidModel ==
    /\ llm.pc = "call_model"
    /\ \E listing \in Listings, listing2 \in Listings :
          LET f == fetch_models(llm.available_models, listing)
              candidate == InvalidModelCandidate(f.models)
              l1 == [Listed(Posted(llm), f) EXCEPT !.retryable_only = FALSE]
          IN  IF candidate # <<>> /\ llm.depth < MaxDepth
              THEN llm' = [l1 EXCEPT !.depth = @ + 1, !.model_name = candidate]
              ELSE llm' = AttemptDone(l1, [exc |-> FALSE, value |-> None], listing2)
    /\ UNCHANGED <<gate, routerVars, form, pureVars, fill>>

LlmReturn ==
    /\ llm.pc = "done"
    /\ llm' = [pc |-> "idle"] @@ ProcessOf(llm)
    /\ UNCHANGED <<gate, routerVars, form, pureVars, fill>>

LlmInit ==
    /\ gate = NoCall
    /\ apiKey = TRUE
    /\ chains = {}
    /\ call = NoCall
    /\ llm = NoCall
    /\ form = NoCall
    /\ norm = NoCall
    /\ parse = NoCall
    /\ fill = NoCall

LlmNext == LlmCall \/ PostOk \/ PostFails \/ PostInvalidModel \/ LlmReturn

LlmSpec == LlmInit /\ [][LlmNext]_vars

(***************************************************************************)
(* main.py: POST /api/extractForm, field normalisation and deduplication   *)
(***************************************************************************)

\* Longest list of candidate fields the extraction hands to extract_form
MaxFields == 3

\* Field names are sequences of characters, descriptions sequences of
\* pieces of text, so that splitting, joining and "in" are computed
NameHoTen == <<"H", "o", " ", "t", "e", "n">>

NameHo == <<"h", "o">>

NameHoTen1 == <<"h", "o", "_", "t", "e", "n", "_", "1">>

RawNames == {NameHoTen, NameHo, NameHoTen1}

RawTypes == {"text", "date"}

Descriptions == {<<>>, <<"d1">>, <<"d2">>}

\* What FormProcessingChain.extract_form_fields returns under "fields":
\* a non-empty list of dicts with all five keys
Candidates ==
    {[name |-> n, type |-> t, label |-> n, required |-> TRUE, description |-> d] :
        n \in RawNames, t \in RawTypes, d \in Descriptions}

FieldLists == UNION {[1..n -> Candidates] : n \in 1..MaxFields}

\* "Họ và tên" precomposed, the same decomposed (combining marks after the
\* base letters), and "Ho va ten"
NameHoVaTenComposed ==
    <<"H", "U+1ECD", " ", "v", "U+00E0", " ", "t", "U+00EA", "n">>

NameHoVaTenDecomposed ==
    <<"H", "o", "U+0323", " ", "v", "a", "U+0300", " ", "t", "e", "U+0302", "n">>

NameHoVaTenPlain == <<"H", "o", " ", "v", "a", " ", "t", "e", "n">>

DiacriticNames == {NameHoVaTenComposed, NameHoVaTenDecomposed}

\* Extractions that hold the label once with and once without diacritics
LabelPairLists ==
    {<<[name |-> n1, type |-> t1, label |-> n1, required |-> TRUE, description |-> d1],
       [name |-> n2, type |-> t2, label |-> n2, required |-> TRUE, description |-> d2]>> :
        n1 \in DiacriticNames, n2 \in {NameHoVaTenPlain},
        t1 \in RawTypes, t2 \in RawTypes,
        d1 \in Descriptions, d2 \in Descriptions}

map_field_type(ftype) ==
    CASE ftype = "text_input" -> "text"
      [] ftype = "address"    -> "text"
      [] ftype = "date"       -> "date"
      [] ftype = "checkbox"   -> "checkbox"
      [] ftype = "signature"  -> "signature"
      [] OTHER                -> "text"

AsciiLower ==
    {"a", "b", "c", "d", "e", "f", "g", "h", "i", "j", "k", "l", "m",
     "n", "o", "p", "q", "r", "s", "t", "u", "v", "w", "x", "y", "z"}

DigitChars == <<"0", "1", "2", "3", "4", "5", "6", "7", "8", "9">>

\* Code points of the non-ASCII characters, written "U+hhhh"
CodePoint(c) ==
    CASE c = "U+00C0" -> 192
      [] c = "U+00E0" -> 224
      [] c = "U+00EA" -> 234
      [] c = "U+1ECD" -> 7885
      [] c = "U+0300" -> 768
      [] c = "U+0302" -> 770
      [] c = "U+0323" -> 803
      [] OTHER        -> 0

\* The characters the class [a-z0-9_À-ſ] accepts
KeptChar(c) ==
    \/ c \in AsciiLower
    \/ \E i \in 1..Len(DigitChars) : DigitChars[i] = c
    \/ c = "_"
    \/ (192 <= CodePoint(c) /\ CodePoint(c) <= 383)

RECURSIVE StripLeft(_, _)
StripLeft(s, chars) ==
    IF s # <<>> /\ s[1] \in chars THEN StripLeft(Tail(s), chars) ELSE s

RECURSIVE StripRight(_, _)
StripRight(s, chars) ==
    IF s # <<>> /\ s[Len(s)] \in chars
    THEN StripRight(SubSeq(s, 1, Len(s) - 1), chars) ELSE s

\* str.strip(chars)
Strip(s, chars) == StripRight(StripLeft(s, chars), chars)

Whitespace == {" ", "\t", "\n"}

\* re.sub(r'_+', '_', s)
RECURSIVE CollapseUnderscores(_)
CollapseUnderscores(s) ==
    IF Len(s) < 2 THEN s
    ELSE IF s[1] = "_" /\ s[2] = "_" THEN CollapseUnderscores(Tail(s))
    ELSE <<s[1]>> \o CollapseUnderscores(Tail(s))

UnnamedField ==
    <<"u", "n", "n", "a", "m", "e", "d", "_", "f", "i", "e", "l", "d">>

MutNormalizeStripFirst(field_name) ==
    IF field_name = <<>> THEN UnnamedField
    ELSE LET lowered  == Strip(Strip(Lower(field_name), Whitespace), {"_"})
             replaced == [i \in 1..Len(lowered) |->
                             IF KeptChar(lowered[i]) THEN lowered[i] ELSE "_"]
             stripped == CollapseUnderscores(replaced)
         IN  IF stripped = <<>> THEN UnnamedField ELSE stripped

normalize_field_name(field_name) ==
    IF field_name = <<>> THEN UnnamedField
    ELSE LET lowered  == Strip(Lower(field_name), Whitespace)
             replaced == [i \in 1..Len(lowered) |->
                             IF KeptChar(lowered[i]) THEN lowered[i] ELSE "_"]
             stripped == Strip(CollapseUnderscores(replaced), {"_"})
         IN  IF stripped = <<>> THEN UnnamedField ELSE stripped

\* Lines 1554-1563
NormalizeAll(fields_list) ==
    [i \in 1..Len(fields_list) |->
        [name        |-> normalize_field_name(fields_list[i].name),
         type        |-> map_field_type(fields_list[i].type),
         label       |-> fields_list[i].label,
         required    |-> fields_list[i].required,
         description |-> fields_list[i].description]]

\* name.split("_")[0]
BaseName(name) ==
    LET cuts == {i \in 1..Len(name) : name[i] = "_"}
    IN  IF cuts = {} THEN name
        ELSE SubSeq(name, 1, (CHOOSE i \in cuts : \A j \in cuts : i <= j) - 1)

\* str(counter)
RECURSIVE Str(_)
Str(n) ==
    IF n < 10 THEN <<DigitChars[n + 1]>>
    ELSE Str(n \div 10) \o <<DigitChars[(n % 10) + 1]>>

\* f"{name}_{counter}"
Suffixed(name, counter) == name \o <<"_">> \o Str(counter)

\* The while loop of lines 1594-1598
RECURSIVE FreeCounter(_, _, _, _)
FreeCounter(name, type, seen_fields, counter) ==
    IF <<Suffixed(name, counter), type>> \in seen_fields
    THEN FreeCounter(name, type, seen_fields, counter + 1)
    ELSE counter

\* Line 1586: index of the first accepted field with this name or this
\* first segment, of whatever type; 0 for None
ExistingField(unique_fields, name, base_name) ==
    LET hits == {i \in 1..Len(unique_fields) :
                    \/ unique_fields[i].name = name
                    \/ BaseName(unique_fields[i].name) = base_name}
    IN  IF hits = {} THEN 0 ELSE CHOOSE i \in hits : \A j \in hits : i <= j

\* f"{existing} | {new}"
MergedDescription(existing, new) == existing \o <<" | ">> \o new

\* One iteration of the loop of lines 1572-1605
DedupStep(acc, field) ==
    LET field_key == <<field.name, field.type>>
        base_name == BaseName(field.name)
        base_key  == <<base_name, field.type>>
        e         == ExistingField(acc.unique_fields, field.name, base_name)
        counter   == FreeCounter(field.name, field.type, acc.seen_fields, 1)
        new_name  == Suffixed(field.name, counter)
    IN  IF field_key \notin acc.seen_fields /\ base_key \notin acc.seen_fields
        THEN [acc EXCEPT !.seen_fields = @ \cup {field_key, base_key},
                         !.unique_fields = Append(@, field)]
        ELSE IF /\ e # 0
                /\ field.description # <<>>
                /\ field.description # acc.unique_fields[e].description
        THEN [acc EXCEPT !.unique_fields[e].description =
                             MergedDescription(@, field.description),
                         !.merged_fields = @ + 1]
        ELSE [acc EXCEPT !.seen_fields = @ \cup {<<new_name, field.type>>},
                         !.unique_fields =
                             Append(@, [field EXCEPT
                                 !.name = new_name,
                                 !.label = @ \o <<" ", "(">> \o Str(counter) \o <<")">>]),
                         !.renamed_fields = @ + 1]

RECURSIVE DedupLoop(_, _, _)
DedupLoop(all_fields, i, acc) ==
    IF i > Len(all_fields) THEN acc
    ELSE DedupLoop(all_fields, i + 1, DedupStep(acc, all_fields[i]))

MutFinalKeepsAll(unique_fields) ==
    unique_fields

\* Lines 1607-1616: keep the first field of every name
FinalValidation(unique_fields) ==
    LET First(i) == \A j \in 1..(i - 1) : unique_fields[j].name # unique_fields[i].name
        F[i \in 0..Len(unique_fields)] ==
            IF i = 0 THEN <<>>
            ELSE IF First(i) THEN Append(F[i - 1], unique_fields[i]) ELSE F[i - 1]
    IN  F[Len(unique_fields)]

\* Lines 1565-1621
Deduplicate(all_fields) ==
    LET acc == DedupLoop(all_fields, 1,
                         [seen_fields |-> {}, unique_fields |-> <<>>,
                          merged_fields |-> 0, renamed_fields |-> 0])
    IN  [acc EXCEPT !.unique_fields = FinalValidation(@)]

\* What happens before the fields reach the deduplication
Upstreams == {"pdf_missing", "ocr_error", "empty_text", "ok"}

ManualEntry ==
    <<[name |-> <<"m", "a", "n", "u", "a", "l", "_", "e", "n", "t", "r", "y">>,
       type |-> "text",
       label |-> <<"OCR produced no text, please fill manually">>]>>

FormResponse(status, fields) == [status |-> status, fields |-> fields]

NoFields == <<>>

ExtractForm ==
    /\ form.pc = "idle"
    /\ \E upstream \in Upstreams :
          \E fields_list \in (IF upstream = "ok" /\ (apiKey \/ "form" \in chains)
                              THEN FieldLists \cup LabelPairLists ELSE {NoFields}) :
              LET c == get_chain("form", chains, apiKey)
                  all_fields == NormalizeAll(fields_list)
                  d == Deduplicate(all_fields)
                  base == [pc |-> "done", endpoint |-> "extract_form",
                           store |-> NoOutcome, upstream |-> upstream,
                           fields_list |-> fields_list, all_fields |-> NoFields,
                           deduplicated |-> FALSE, merged_fields |-> 0,
                           renamed_fields |-> 0]
              IN  CASE upstream \in {"pdf_missing", "ocr_error"} ->
                         \* both HTTPExceptions are caught by "except Exception"
                         /\ form' = base @@
                                    [resp |-> FormResponse(500, NoFields)]
                         /\ UNCHANGED chains
                    [] upstream = "empty_text" ->
                         /\ form' = base @@ [resp |-> FormResponse(200, ManualEntry)]
                         /\ UNCHANGED chains
                    [] upstream = "ok" /\ c.raised ->
                         /\ form' = base @@ [resp |-> FormResponse(500, NoFields)]
                         /\ UNCHANGED chains
                    [] OTHER ->
                         /\ form' = [base EXCEPT !.all_fields = all_fields,
                                                 !.deduplicated = TRUE,
                                                 !.merged_fields = d.merged_fields,
                                                 !.renamed_fields = d.renamed_fields]
                                    @@ [resp |-> FormResponse(200, d.unique_fields)]
                         /\ chains' = c.built
    /\ UNCHANGED <<gate, apiKey, call, llm, pureVars, fill>>

\* Lines 1873-1881: keep the first field of every (name, type)
FallbackUnique(all_fields) ==
    LET First(i) == \A j \in 1..(i - 1) :
                        <<all_fields[j].name, all_fields[j].type>>
                            # <<all_fields[i].name, all_fields[i].type>>
        F[i \in 0..Len(all_fields)] ==
            IF i = 0 THEN <<>>
            ELSE IF First(i) THEN Append(F[i - 1], all_fields[i]) ELSE F[i - 1]
    IN  F[Len(all_fields)]

\* extract_form_fallback: OCR, extraction, normalisation, (name, type) filter
extract_form_fallback(upstream, fields_list, built, key) ==
    LET c == get_chain("form", built, key)
        all_fields == NormalizeAll(fields_list)
    IN  CASE upstream \in {"pdf_missing", "ocr_error"} ->
               [resp |-> FormResponse(500, NoFields), built |-> built,
                all_fields |-> NoFields, deduplicated |-> FALSE]
          [] upstream = "empty_text" ->
               [resp |-> FormResponse(200, ManualEntry), built |-> built,
                all_fields |-> NoFields, deduplicated |-> FALSE]
          [] upstream = "ok" /\ c.raised ->
               [resp |-> FormResponse(500, NoFields), built |-> built,
                all_fields |-> NoFields, deduplicated |-> FALSE]
          [] OTHER ->
               [resp |-> FormResponse(200, FallbackUnique(all_fields)),
                built |-> c.built, all_fields |-> all_fields,
                deduplicated |-> TRUE]

\* Longest list of candidate fields the extraction hands to the fallback
MaxFallbackFields == 2

FallbackFieldLists == UNION {[1..n -> Candidates] : n \in 1..MaxFallbackFields}

\* Longest field list kept in the forms table for one file
MaxStored == 1

\* form_data['form_fields'] of the stored form, when there is one
StoredFieldLists == UNION {[1..n -> Candidates] : n \in 1..MaxStored}

\* get_form_by_filename: no row (or a failed query), a row whose form_fields
\* is neither a dict with "fields" nor a list, or a row with a field list
StoreOutcomes == {"miss", "other_format", "hit"}

\* Lines 1707-1723: the stored fields, with defaults for missing keys
ConvertStored(stored) ==
    [i \in 1..Len(stored) |->
        stored[i] @@ [confidence |-> 0]]

\* POST /api/extractFormPreprocessed: the stored fields, else the fallback
ExtractFormPreprocessed ==
    /\ form.pc = "idle"
    /\ \E store \in StoreOutcomes :
          IF store = "hit"
          THEN /\ \E stored \in StoredFieldLists :
                     form' = [pc |-> "done", endpoint |-> "extract_form_preprocessed",
                              store |-> store, upstream |-> NoOutcome,
                              fields_list |-> stored, all_fields |-> NoFields,
                              deduplicated |-> FALSE, merged_fields |-> 0,
                              renamed_fields |-> 0,
                              resp |-> FormResponse(200, ConvertStored(stored))]
               /\ UNCHANGED chains
          ELSE \E upstream \in Upstreams :
                 \E fields_list \in (IF upstream = "ok" /\ (apiKey \/ "form" \in chains)
                                     THEN FallbackFieldLists ELSE {NoFields}) :
                    LET r == extract_form_fallback(upstream, fields_list, chains, apiKey)
                    IN  /\ form' = [pc |-> "done",
                                    endpoint |-> "extract_form_preprocessed",
                                    store |-> store, upstream |-> upstream,
                                    fields_list |-> fields_list,
                                    all_fields |-> r.all_fields,
                                    deduplicated |-> r.deduplicated,
                                    merged_fields |-> 0, renamed_fields |-> 0,
                                    resp |-> r.resp]
                        /\ chains' = r.built
    /\ UNCHANGED <<gate, apiKey, call, llm, pureVars, fill>>

FormRespond ==
    /\ form.pc = "done"
    /\ form' = NoCall
    /\ UNCHANGED <<gate, routerVars, llm, pureVars, fill>>

FormInit ==
    /\ gate = NoCall
    /\ apiKey \in BOOLEAN
    /\ chains = {}
    /\ call = NoCall
    /\ llm = NoCall
    /\ form = NoCall
    /\ norm = NoCall
    /\ parse = NoCall
    /\ fill = NoCall

FormNext == ExtractForm \/ ExtractFormPreprocessed \/ FormRespond

FormSpec == FormInit /\ [][FormNext]_vars

(***************************************************************************)
(* main.py: normalize_field_name applied to arbitrary strings, twice       *)
(***************************************************************************)

\* Longest raw name given to the normalizer
MaxNameLen == 3

\* Letters of both cases, a digit, space, underscore, a symbol, a letter
\* inside and one outside the range the normalizer keeps
NameAlphabet == {"H", "o", "1", " ", "_", "!", "U+00C0", "U+1ECD"}

RawStrings == UNION {[1..n -> NameAlphabet] : n \in 0..MaxNameLen}

NormalizeName ==
    /\ norm.pc = "idle"
    /\ \E x \in RawStrings :
          norm' = [pc |-> "once", field_name |-> x,
                   once |-> normalize_field_name(x), twice |-> <<>>]
    /\ UNCHANGED <<gate, routerVars, llm, form, parse, fill>>

NormalizeAgain ==
    /\ norm.pc = "once"
    /\ norm' = [norm EXCEPT !.pc = "twice",
                            !.twice = normalize_field_name(norm.once)]
    /\ UNCHANGED <<gate, routerVars, llm, form, parse, fill>>

NormReturn ==
    /\ norm.pc = "twice"
    /\ norm' = NoCall
    /\ UNCHANGED <<gate, routerVars, llm, form, parse, fill>>

NormInit ==
    /\ gate = NoCall
    /\ apiKey = TRUE
    /\ chains = {}
    /\ call = NoCall
    /\ llm = NoCall
    /\ form = NoCall
    /\ norm = NoCall
    /\ parse = NoCall
    /\ fill = NoCall

NormNext == NormalizeName \/ NormalizeAgain \/ NormReturn

NormSpec == NormInit /\ [][NormNext]_vars

(***************************************************************************)
(* chains/form_chain.py: try_parse_json on replies cut into JSON tokens    *)
(***************************************************************************)

\* A reply is a sequence of pieces: punctuation, whole "key":"value" pairs,
\* pairs cut short, fences and prose
FieldsKey == "\"fields\":"

KVa == "\"name\":\"a\""

KV1 == "\"value\":\"1\""

KVb == "\"name\":\"b\""

KVn == "\"name\":\"n\""

\* a pair whose value is a number
KVnum == "\"name\":1"

\* a pair whose value holds a closing brace
KVbrace == "\"note\":\"}\""

\* pairs cut inside the value, after the colon, and inside the key
KVbCut == "\"name\":\"b"

KVbraceCut == "\"note\":\"}"

KeyOnly == "\"name\":"

HalfKey == "\"na"

BareString == "\"na\""

Quote == "\""

\* the opening and the closing code fence (three backquotes in the source)
FenceOpen == "~~~json"

FenceClose == "~~~"

Prose == "Here is the result"

CompletePairs == {KVa, KV1, KVb, KVn, KVbrace, KVnum}

\* the number of double quotes in one piece (str.count)
QuoteCount(tok) ==
    CASE tok \in CompletePairs \ {KVnum}            -> 4
      [] tok \in {KVbCut, KVbraceCut}               -> 3
      [] tok \in {FieldsKey, KeyOnly, BareString, KVnum} -> 2
      [] tok \in {HalfKey, Quote}                   -> 1
      [] OTHER                                      -> 0

RECURSIVE CountQuotes(_)
CountQuotes(t) == IF t = <<>> THEN 0 ELSE QuoteCount(t[1]) + CountQuotes(Tail(t))

\* the piece holds the character "}" / "{"
HasCloseBrace(tok) == tok \in {"}", KVbrace, KVbraceCut}

HasOpenBrace(tok) == tok = "{"

\* A cut pair followed by a quote reads as the pair (or as a bare string)
Closed(tok) ==
    CASE tok = KVbCut     -> KVb
      [] tok = KVbraceCut -> KVbrace
      [] tok = HalfKey    -> BareString
      [] OTHER            -> tok

RECURSIVE Glue(_)
Glue(t) ==
    IF Len(t) < 2 THEN t
    ELSE IF t[2] = Quote /\ Closed(t[1]) # t[1]
    THEN <<Closed(t[1])>> \o Glue(SubSeq(t, 3, Len(t)))
    ELSE <<t[1]>> \o Glue(Tail(t))

At(t, i) == IF i \in 1..Len(t) THEN t[i] ELSE "<end>"

ParseFailed == [ok |-> FALSE, next |-> 0, value |-> <<>>]

\* "key":"value" ("," "key":"value")* "}" from position i
RECURSIVE ParsePairs(_, _, _)
ParsePairs(t, i, acc) ==
    IF At(t, i) \notin CompletePairs THEN ParseFailed
    ELSE IF At(t, i + 1) = "}"
    THEN [ok |-> TRUE, next |-> i + 2, value |-> Append(acc, t[i])]
    ELSE IF At(t, i + 1) = ","
    THEN ParsePairs(t, i + 2, Append(acc, t[i]))
    ELSE ParseFailed

\* a flat object from position i
ParseObject(t, i) ==
    IF At(t, i) # "{" THEN ParseFailed
    ELSE IF At(t, i + 1) = "}" THEN [ok |-> TRUE, next |-> i + 2, value |-> <<>>]
    ELSE ParsePairs(t, i + 1, <<>>)

\* object ("," object)* "]" from position i
RECURSIVE ParseObjects(_, _, _)
ParseObjects(t, i, acc) ==
    LET o == ParseObject(t, i)
    IN  IF ~o.ok THEN ParseFailed
        ELSE IF At(t, o.next) = "]"
        THEN [ok |-> TRUE, next |-> o.next + 1, value |-> Append(acc, o.value)]
        ELSE IF At(t, o.next) = ","
        THEN ParseObjects(t, o.next + 1, Append(acc, o.value))
        ELSE ParseFailed

ParseArray(t, i) ==
    IF At(t, i) # "[" THEN ParseFailed
    ELSE IF At(t, i + 1) = "]" THEN [ok |-> TRUE, next |-> i + 2, value |-> <<>>]
    ELSE ParseObjects(t, i + 1, <<>>)

\* json.loads: the whole text is one object, either flat or holding only
\* the "fields" array of flat objects
json_loads(text) ==
    LET t == Glue(text)
        flat == ParseObject(t, 1)
        arr  == ParseArray(t, 3)
    IN  IF flat.ok /\ flat.next = Len(t) + 1
        THEN [ok |-> TRUE, value |-> [has_fields |-> FALSE, fields |-> <<>>,
                                      pairs |-> flat.value]]
        ELSE IF /\ At(t, 1) = "{" /\ At(t, 2) = FieldsKey
                /\ arr.ok /\ At(t, arr.next) = "}" /\ arr.next = Len(t)
        THEN [ok |-> TRUE, value |-> [has_fields |-> TRUE, fields |-> arr.value,
                                      pairs |-> <<>>]]
        ELSE [ok |-> FALSE, value |-> [has_fields |-> FALSE, fields |-> <<>>,
                                       pairs |-> <<>>]]

\* clean_llm_output: a leading and a trailing fence are removed
clean_llm_output(text) ==
    LET a == IF text # <<>> /\ text[1] = FenceOpen THEN Tail(text) ELSE text
    IN  IF a # <<>> /\ a[Len(a)] = FenceClose THEN SubSeq(a, 1, Len(a) - 1) ELSE a

\* The brace pattern of the second strategy: from the first opening brace
\* to the last closing brace of the text
BraceSpan(t) ==
    LET opens  == {i \in 1..Len(t) : HasOpenBrace(t[i])}
        first  == CHOOSE i \in opens : \A j \in opens : i <= j
        closes == {j \in 1..Len(t) : opens # {} /\ HasCloseBrace(t[j]) /\ j > first}
        last   == CHOOSE j \in closes : \A k \in closes : k <= j
    IN  IF opens = {} \/ closes = {} THEN [found |-> FALSE, str |-> <<>>]
        ELSE [found |-> TRUE,
              str |-> SubSeq(t, first, last - 1)
                      \o <<IF t[last] = KVbrace THEN KVbraceCut ELSE t[last]>>]

\* The pattern of the third strategy: from the first fields key that is
\* followed by an opening bracket to the end of the text
FieldsSpan(t) ==
    LET starts == {i \in 1..Len(t) : t[i] = FieldsKey /\ At(t, i + 1) = "["}
        first  == CHOOSE i \in starts : \A j \in starts : i <= j
    IN  IF starts = {} THEN [found |-> FALSE, str |-> <<>>]
        ELSE [found |-> TRUE, str |-> SubSeq(t, first, Len(t))]

\* Lines 78-84: close a dangling quote, then the array
CloseArray(arr_str) ==
    LET q == IF CountQuotes(arr_str) % 2 = 1 THEN Append(arr_str, Quote) ELSE arr_str
    IN  IF q[Len(q)] # "]" THEN Append(q, "]") ELSE q

\* The last resort: what follows the first comma that is followed by an
\* opening brace with no closing brace after it is removed, and the array
\* is closed
MutDropNothing(arr_str) == arr_str \o <<"]">>

DropTrailingObject(arr_str) ==
    LET cuts == {k \in 1..Len(arr_str) :
                    /\ arr_str[k] = ","
                    /\ At(arr_str, k + 1) = "{"
                    /\ \A m \in (k + 2)..Len(arr_str) : ~HasCloseBrace(arr_str[m])}
        first == CHOOSE k \in cuts : \A m \in cuts : k <= m
    IN  (IF cuts = {} THEN arr_str ELSE SubSeq(arr_str, 1, first - 1)) \o <<"]">>

Strategies == <<"direct", "brace_span", "fields_array", "drop_truncated">>

NoValue == [has_fields |-> FALSE, fields |-> <<>>, pairs |-> <<>>]

ParseOutcome(raised, value, direct, brace_span, fields_array, drop_truncated) ==
    [raised |-> raised, value |-> value,
     status |-> [direct |-> direct, brace_span |-> brace_span,
                 fields_array |-> fields_array, drop_truncated |-> drop_truncated]]

MutParseBraceSpanFirst(text) ==
    LET t == clean_llm_output(text)
        b == BraceSpan(t)
        second == IF b.found THEN json_loads(b.str) ELSE json_loads(<<>>)
        direct == json_loads(t)
    IN  IF second.ok
        THEN ParseOutcome(FALSE, second.value, "not_reached", "ok",
                          "not_reached", "not_reached")
        ELSE IF direct.ok
        THEN ParseOutcome(FALSE, direct.value, "ok", "failed",
                          "not_reached", "not_reached")
        ELSE ParseOutcome(TRUE, NoValue, "failed", "failed", "no_match", "no_match")

\* try_parse_json: the value returned, or ValueError, and what became of
\* each strategy (ok, failed, no_match when its pattern found nothing,
\* not_reached)
try_parse_json(text) ==
    LET t == clean_llm_output(text)
        direct == json_loads(t)
        b == BraceSpan(t)
        second == IF b.found THEN json_loads(b.str) ELSE json_loads(<<>>)
        s2 == IF ~b.found THEN "no_match" ELSE IF second.ok THEN "ok" ELSE "failed"
        f == FieldsSpan(t)
        arr_str == CloseArray(f.str)
        third == json_loads(<<"{">> \o arr_str \o <<"}">>)
        last == json_loads(<<"{">> \o DropTrailingObject(arr_str) \o <<"}">>)
    IN  IF direct.ok
        THEN ParseOutcome(FALSE, direct.value, "ok", "not_reached",
                          "not_reached", "not_reached")
        ELSE IF b.found /\ second.ok
        THEN ParseOutcome(FALSE, second.value, "failed", "ok",
                          "not_reached", "not_reached")
        ELSE IF ~f.found
        THEN ParseOutcome(TRUE, NoValue, "failed", s2, "no_match", "no_match")
        ELSE IF third.ok
        THEN ParseOutcome(FALSE, third.value, "failed", s2, "ok", "not_reached")
        ELSE IF last.ok
        THEN ParseOutcome(FALSE, last.value, "failed", s2, "failed", "ok")
        ELSE ParseOutcome(TRUE, NoValue, "failed", s2, "failed", "failed")

\* The replies given to the recoverer
ObjA == <<"{", KVa, ",", KV1, "}">>

ObjB == <<"{", KVb, "}">>

ObjN == <<"{", KVn, ",", KVbrace, "}">>

ObjectLists == {<<ObjA>>, <<ObjB>>, <<ObjA, ObjB>>, <<ObjA, ObjN>>, <<ObjB, ObjA>>}

\* the pairs of an object, as json_loads returns them
PairsOf(obj) == SelectSeq(obj, LAMBDA tok : tok \in CompletePairs)

RECURSIVE Joined(_)
Joined(objs) ==
    IF objs = <<>> THEN <<>>
    ELSE IF Len(objs) = 1 THEN objs[1]
    ELSE objs[1] \o <<",">> \o Joined(Tail(objs))

FieldsDoc(objs) == <<"{", FieldsKey, "[">> \o Joined(objs) \o <<"]", "}">>

\* the ways a reply can end inside a pair
CutsOf(tok) ==
    CASE tok = KVb     -> {KVbCut, KeyOnly, HalfKey}
      [] tok = KVbrace -> {KVbraceCut}
      [] tok \in CompletePairs -> {KeyOnly, HalfKey}
      [] OTHER -> {}

\* an object cut before its closing brace: after k whole pieces, or inside
\* piece k + 1
CutObjects(obj) ==
    {SubSeq(obj, 1, k) : k \in 1..(Len(obj) - 1)} \cup
    UNION {{SubSeq(obj, 1, k) \o <<c>> : c \in CutsOf(obj[k + 1])} :
              k \in 1..(Len(obj) - 2)}

Prefixes == {<<>>, <<FenceOpen>>, <<Prose>>}

Suffixes == {<<>>, <<FenceClose>>, <<Prose>>}

CompleteReplies ==
    {[kind |-> "complete", before |-> [i \in 1..Len(objs) |-> PairsOf(objs[i])],
      tail_brace |-> FALSE, clean |-> p = <<>> /\ s # <<Prose>>,
      text |-> p \o FieldsDoc(objs) \o s] :
        objs \in ObjectLists, p \in Prefixes, s \in Suffixes}
    \cup
    {[kind |-> "complete", before |-> <<>>, tail_brace |-> FALSE,
      clean |-> p = <<>> /\ s # <<Prose>>, text |-> p \o ObjA \o s] :
        p \in Prefixes, s \in Suffixes}

\* replies whose "fields" array is cut off inside its last object
CutReplies ==
    UNION {{[kind |-> "cut_in_last_object",
             before |-> [i \in 1..(Len(objs) - 1) |-> PairsOf(objs[i])],
             tail_brace |-> \E i \in 1..Len(c) : HasCloseBrace(c[i]),
             clean |-> FALSE,
             text |-> p \o <<"{", FieldsKey, "[">>
                        \o Joined(SubSeq(objs, 1, Len(objs) - 1))
                        \o (IF Len(objs) > 1 THEN <<",">> ELSE <<>>) \o c] :
              c \in CutObjects(objs[Len(objs)]), p \in Prefixes} :
           objs \in ObjectLists}

\* replies cut elsewhere, and replies that hold no JSON at all
OtherReplies ==
    {[kind |-> "other", before |-> <<>>, tail_brace |-> FALSE, clean |-> FALSE,
      text |-> t] :
        t \in UNION {{SubSeq(FieldsDoc(objs), 1, k) :
                         k \in {0, 1, 2, 3, Len(FieldsDoc(objs)) - 1}} :
                     objs \in ObjectLists}
              \cup {<<Prose>>, <<Prose, "{", Prose, "}">>, <<FieldsKey, "[", "]">>}}

Replies == CompleteReplies \cup CutReplies \cup OtherReplies

ParseCall ==
    /\ parse.pc = "idle"
    /\ \E reply \in Replies :
          parse' = [pc |-> "returned", reply |-> reply,
                    out |-> try_parse_json(reply.text)]
    /\ UNCHANGED <<gate, routerVars, llm, form, norm, fill>>

ParseReturn ==
    /\ parse.pc = "returned"
    /\ parse' = NoCall
    /\ UNCHANGED <<gate, routerVars, llm, form, norm, fill>>

ParseInit ==
    /\ gate = NoCall
    /\ apiKey = TRUE
    /\ chains = {}
    /\ call = NoCall
    /\ llm = NoCall
    /\ form = NoCall
    /\ norm = NoCall
    /\ parse = NoCall
    /\ fill = NoCall

ParseNext == ParseCall \/ ParseReturn

ParseSpec == ParseInit /\ [][ParseNext]_vars

(***************************************************************************)
(* extract_form from the OCR text onward: extract_form_fields on a reply   *)
(* of the completion service, then the normalisation and deduplication     *)
(***************************************************************************)

\* An object whose name is the JSON number 1, and an object with no members
ObjNum == <<"{", KVnum, "}">>

ObjEmpty == <<"{", "}">>

\* The value json.loads gives for the number 1; names that are strings are
\* sequences of characters
NumberOne == <<"1 (int)">>

NonStrings == {NumberOne}

\* field.get("name", default) on a parsed object
GetName(pairs, default) ==
    IF \E i \in 1..Len(pairs) : pairs[i] = KVa THEN <<"a">>
    ELSE IF \E i \in 1..Len(pairs) : pairs[i] = KVb THEN <<"b">>
    ELSE IF \E i \in 1..Len(pairs) : pairs[i] = KVn THEN <<"n">>
    ELSE IF \E i \in 1..Len(pairs) : pairs[i] = KVnum THEN NumberOne
    ELSE default

FormContent == <<"f", "o", "r", "m", "_", "c", "o", "n", "t", "e", "n", "t">>

\* Lines 251-271: the generic field of the two fallbacks
GenericField(description) ==
    <<[name |-> FormContent, type |-> "text", label |-> <<"Form Content">>,
       required |-> TRUE, description |-> <<description>>]>>

\* Lines 166-177
ManualEntryField ==
    <<[name |-> <<"m", "a", "n", "u", "a", "l", "_", "e", "n", "t", "r", "y">>,
       type |-> "text", label |-> <<"Manual Entry">>, required |-> FALSE,
       description |-> <<"No text provided, please fill manually">>]>>

\* The OCR text: blank, lines that clean_ocr_text drops altogether, and text
\* that reaches the prompt
FormTexts == {"blank", "cleaned_to_nothing", "text"}

ExtractObjectLists ==
    ObjectLists \cup {<<ObjNum>>, <<ObjA, ObjNum>>, <<ObjA, ObjA>>, <<ObjEmpty>>, <<>>}

\* What chain.invoke gives to extract_form_fields
ExtractReplies ==
    {[kind |-> "raises", text |-> <<>>],
     [kind |-> "unreachable", text |-> <<FinalFallbackText>>]}
    \cup {[kind |-> "reply", text |-> p \o FieldsDoc(objs)] :
             objs \in ExtractObjectLists, p \in Prefixes}
    \cup {[kind |-> "reply", text |-> r.text] : r \in CutReplies \cup OtherReplies}
    \cup {[kind |-> "reply", text |-> ObjA]}

\* extract_form_fields: the list under "fields" of the dict it returns
extract_form_fields(form_text, reply) ==
    IF form_text # "text" THEN ManualEntryField
    ELSE IF reply.kind = "raises"
    THEN GenericField("Error extracting fields, please fill manually")
    ELSE LET out == try_parse_json(reply.text)
             fields == out.value.fields
         IN  IF out.raised
             THEN GenericField("Error extracting fields, please fill manually")
             ELSE IF out.value.has_fields /\ fields # <<>>
             THEN [i \in 1..Len(fields) |->
                     [name |-> GetName(fields[i], UnnamedField),
                      type |-> "text",
                      label |-> GetName(fields[i], <<"Unnamed field">>),
                      required |-> TRUE,
                      description |-> <<>>]]
             ELSE GenericField("Please fill out the form content")

\* normalize_field_name calls lower() on a name that is not falsy: a number
\* has no such method
NormalizeRaises(fields_list) ==
    \E i \in 1..Len(fields_list) : fields_list[i].name \in NonStrings

\* extract_form, lines 1508-1637: the status and the fields of the answer,
\* fields_list being what extract_form_fields returns when it is called
ExtractFromText(form_text, fields_list, built, key) ==
    LET c == get_chain("form", built, key)
    IN  IF form_text = "blank" THEN [built |-> built, status |-> 200, fields |-> ManualEntry]
        ELSE IF c.raised THEN [built |-> built, status |-> 500, fields |-> NoFields]
        ELSE IF NormalizeRaises(fields_list)
        THEN [built |-> c.built, status |-> 500, fields |-> NoFields]
        ELSE [built |-> c.built, status |-> 200,
              fields |-> Deduplicate(NormalizeAll(fields_list)).unique_fields]

ExtractFields ==
    /\ form.pc = "idle"
    /\ \E form_text \in FormTexts, reply \in ExtractReplies :
          \E fields_list \in {extract_form_fields(form_text, reply)} :
              \E r \in {ExtractFromText(form_text, fields_list, chains, apiKey)} :
                  /\ form' = [pc |-> "done", endpoint |-> "extract_form",
                              form_text |-> form_text, reply |-> reply,
                              fields_list |-> fields_list,
                              chain_built |-> form_text # "blank" /\ "form" \in r.built,
                              resp |-> FormResponse(r.status, r.fields)]
                  /\ chains' = r.built
    /\ UNCHANGED <<gate, apiKey, call, llm, pureVars, fill>>

ExtractNext == ExtractFields \/ FormRespond

ExtractSpec == FormInit /\ [][ExtractNext]_vars

(***************************************************************************)
(* chains/form_chain.py: fill_form, behind the /api/fillForm endpoint       *)
(***************************************************************************)

\* The longest chat history accepted, and the number of last messages that
\* reach the prompt
MaxChatHistory == 50

LastMessages == 10

MaxSchemaFields == 2

\* A schema field without a "name" key
NoName == "<no name>"

SchemaFieldNames == {"ho", "ngay_sinh", NoName}

SchemaFieldLists == UNION {[1..n -> SchemaFieldNames] : n \in 0..MaxSchemaFields}

\* form_schema: None, an empty dict, a dict without a "fields" key, or a dict
\* with a list of fields
Schemas ==
    {[kind |-> k, fields |-> <<>>] : k \in {"none", "empty_dict", "no_fields_key"}}
    \cup {[kind |-> "dict", fields |-> f] : f \in SchemaFieldLists}

\* The lengths of chat_history around the two thresholds
HistoryLengths ==
    {0, LastMessages, LastMessages + 1,
     MaxChatHistory - 1, MaxChatHistory, MaxChatHistory + 1}

\* not form_schema or not form_schema.get('fields')
InvalidSchema(form_schema) ==
    \/ form_schema.kind \in {"none", "empty_dict"}
    \/ form_schema.kind = "no_fields_key"
    \/ form_schema.fields = <<>>

MutTooLongAtLimit(chat_history) == chat_history >= MaxChatHistory

\* len(chat_history) > 50
TooLong(chat_history) == chat_history > MaxChatHistory

\* chat_history[-10:]
LimitedChat(chat_history) ==
    IF chat_history > LastMessages THEN LastMessages ELSE chat_history

\* What chain.invoke gives: an exception, the apology of _call when no POST
\* succeeded, or the text of a completion
InvokeResults ==
    {[kind |-> "raises", text |-> <<>>],
     [kind |-> "unreachable", text |-> <<FinalFallbackText>>]}
    \cup {[kind |-> "reply", text |-> r.text] : r \in Replies}

MutAskOnlyFirst(form_schema) ==
    [i \in 1..(IF form_schema.fields = <<>> THEN 0 ELSE 1) |->
        [name |-> form_schema.fields[i], value |-> "ASK_USER"]]

\* Lines 155-160: one entry for every field of the schema
AskUser(form_schema) ==
    [i \in 1..Len(form_schema.fields) |->
        [name |-> IF form_schema.fields[i] = NoName THEN "unknown"
                  ELSE form_schema.fields[i],
         value |-> "ASK_USER"]]

NoParsed == [has_fields |-> FALSE, fields |-> <<>>, pairs |-> <<>>]

\* The endpoint: build the chain, then the validation of fill_form
FillForm ==
    /\ fill.pc = "idle"
    /\ \E form_schema \in Schemas, chat_history \in HistoryLengths :
          LET c == get_chain("form", chains, apiKey)
              base == [pc |-> "returned", form_schema |-> form_schema,
                       chat_history |-> chat_history, limited_chat |-> 0,
                       chain_built |-> ~c.raised, invoked |-> 0,
                       result |-> [kind |-> None, text |-> <<>>],
                       error |-> None, fell_back |-> FALSE,
                       parsed |-> NoParsed, fallback_fields |-> <<>>,
                       status_code |-> 500]
          IN  /\ chains' = c.built
              /\ fill' =
                   IF c.raised
                   THEN [base EXCEPT !.error = "SEA_LION_API_KEY not found"]
                   ELSE IF InvalidSchema(form_schema)
                   THEN [base EXCEPT !.error = "Invalid form schema"]
                   ELSE IF TooLong(chat_history)
                   THEN [base EXCEPT !.error = "Chat history too long"]
                   ELSE [base EXCEPT !.pc = "invoking",
                                     !.limited_chat = LimitedChat(chat_history)]
    /\ UNCHANGED <<gate, apiKey, call, llm, form, pureVars>>

\* Lines 140-161: the pipeline, the recoverer and the except branch
FillInvoke ==
    /\ fill.pc = "invoking"
    /\ \E result \in InvokeResults :
          LET out == try_parse_json(result.text)
              failed == result.kind = "raises" \/ out.raised
          IN  fill' = [fill EXCEPT
                          !.pc = "returned",
                          !.invoked = @ + 1,
                          !.result = result,
                          !.fell_back = failed,
                          !.parsed = IF failed THEN NoParsed ELSE out.value,
                          !.fallback_fields =
                              IF failed THEN AskUser(fill.form_schema) ELSE <<>>,
                          !.status_code = 200]
    /\ UNCHANGED <<gate, routerVars, llm, form, pureVars>>

FillRespond ==
    /\ fill.pc = "returned"
    /\ fill' = NoCall
    /\ UNCHANGED <<gate, routerVars, llm, form, pureVars>>

FillInit ==
    /\ gate = NoCall
    /\ apiKey \in BOOLEAN
    /\ chains = {}
    /\ call = NoCall
    /\ llm = NoCall
    /\ form = NoCall
    /\ norm = NoCall
    /\ parse = NoCall
    /\ fill = NoCall

FillNext == FillForm \/ FillInvoke \/ FillRespond

FillSpec == FillInit /\ [][FillNext]_vars

(***************************************************************************)
(* One conversation: every turn is a call of smart_chat whose context      *)
(* holds one more user message, the classifier proposing a lookup each time *)
(***************************************************************************)

LookupTypes == {"ragLink", "ragForm"}

\* The client opens a conversation: the context is empty
ConvStart ==
    /\ call.pc = "idle"
    /\ call' = [pc |-> "conversation", context |-> Context(0), turns_served |-> 0,
                retrieved |-> FALSE, retrieved_at |-> None,
                message |-> MsgEmpty, response_type |-> None, handler |-> None,
                should_use_rag |-> FALSE]
    /\ UNCHANGED <<gate, apiKey, chains, llm, form, pureVars, fill>>

\* smart_chat up to the choice of the branch (lines 1186-1229), then the
\* client appends the exchange to the context
ConvTurn ==
    /\ call.pc = "conversation"
    /\ CountUserTurns(call.context) <= MaxUserTurns
    /\ \E message \in Messages, llm_response_type \in LookupTypes,
          needs_agency \in BOOLEAN, selected_agency \in SelectedAgencies,
          gate_reply \in GateRepliesSeen :
          LET conversation_turns == CountUserTurns(call.context)
              g == should_trigger_rag(message, llm_response_type, conversation_turns,
                                      max_clarification_turns, gate_reply)
              response_type == FinalResponseType(llm_response_type, g.ret,
                                                 conversation_turns)
              branch == BranchOf(response_type,
                                 ShouldOfferAgency(needs_agency, selected_agency,
                                                   response_type))
              retrieves == branch \in {"rag_link_search", "rag_form_search"}
          IN  call' = [call EXCEPT
                          !.context = Context(conversation_turns + 1),
                          !.turns_served = @ + 1,
                          !.retrieved = @ \/ retrieves,
                          !.retrieved_at = IF ~call.retrieved /\ retrieves
                                           THEN conversation_turns ELSE @,
                          !.message = message,
                          !.response_type = llm_response_type,
                          !.handler = branch,
                          !.should_use_rag = g.ret]
    /\ UNCHANGED <<gate, apiKey, chains, llm, form, pureVars, fill>>

\* The client drops the conversation
ConvEnd ==
    /\ call.pc = "conversation"
    /\ call' = NoCall
    /\ UNCHANGED <<gate, apiKey, chains, llm, form, pureVars, fill>>

ConvNext == ConvStart \/ ConvTurn \/ ConvEnd

ConvSpec == Init /\ [][ConvNext]_vars

(***************************************************************************)
(* Advisory handlers on their process-wide instances: ChatChain.chat and   *)
(* AgencySelectionChain.select_agency.  The endpoints are coroutines with  *)
(* no await between the assignment of the settings and the completion      *)
(* calls, so the requests of one process are served one after another.     *)
(***************************************************************************)

AdvisoryHandlers == {"chat", "agency"}

DefaultTemperature == "0.7"

DefaultMaxTokens(handler) == IF handler = "chat" THEN 150 ELSE 300

\* self.llm as __init__ leaves it
ConstructedLlm(handler) ==
    [temperature |-> DefaultTemperature, max_tokens |-> DefaultMaxTokens(handler)]

\* The settings argument: None, or a dict holding some of the keys
\* temperature and maxTokens (the fields of absent keys are never read)
SettingsOf(is_none, keys) ==
    [is_none |-> is_none, keys |-> keys, temperature |-> "0.2", maxTokens |-> 500]

RequestSettings ==
    {SettingsOf(TRUE, {})}
        \cup {SettingsOf(FALSE, keys) : keys \in SUBSET {"temperature", "maxTokens"}}

\* if settings: None and the empty dict are falsy
SettingsGiven(settings) == ~settings.is_none /\ settings.keys # {}

\* settings.get(key, default)
SettingsGet(settings, key, default) ==
    IF key \in settings.keys THEN settings[key] ELSE default

\* The parameters a request's own settings ask for
OwnParameters(handler, settings) ==
    [temperature |-> SettingsGet(settings, "temperature", DefaultTemperature),
     max_tokens |-> SettingsGet(settings, "maxTokens", DefaultMaxTokens(handler))]

\* The body of chat / select_agency on the instance whose llm holds params:
\* the settings are assigned to self.llm when given; self.chain.invoke makes
\* one completion call; when it raises, simple_chain.invoke makes another
Advise(handler, settings, params, outcome) ==
    LET p == IF SettingsGiven(settings) THEN OwnParameters(handler, settings)
             ELSE params
        calls == IF outcome = "parsed" THEN 1 ELSE 2
    IN  [params |-> p,
         used |-> [i \in 1..calls |-> p],
         raised |-> outcome = "fallback_raises",
         text |-> ChainText(outcome)]

\* /api/chat or /api/choose_agency: the chain getter, then the handler, inside
\* one try/except that raises HTTPException(500)
AdvisoryRequest ==
    /\ call.pc = "idle"
    /\ \E handler \in AdvisoryHandlers, settings \in RequestSettings,
          outcome \in ChainOutcomes :
          LET got == get_chain(handler, chains, apiKey)
              r == Advise(handler, settings, llm.params[handler], outcome)
          IN  /\ chains' = got.built
              /\ IF got.raised
                 THEN /\ call' = [pc |-> "done", handler |-> handler,
                                  settings |-> settings, got_chain |-> FALSE,
                                  used |-> <<>>, status |-> 500, text |-> None]
                      /\ llm' = llm
                 ELSE /\ call' = [pc |-> "done", handler |-> handler,
                                  settings |-> settings, got_chain |-> TRUE,
                                  used |-> r.used,
                                  status |-> IF r.raised THEN 500 ELSE 200,
                                  text |-> IF r.raised THEN None ELSE r.text]
                      /\ llm' = [llm EXCEPT !.params[handler] = r.params]
    /\ UNCHANGED <<gate, apiKey, form, pureVars, fill>>

AdvisoryRespond ==
    /\ call.pc = "done"
    /\ call' = NoCall
    /\ UNCHANGED <<gate, apiKey, chains, llm, form, pureVars, fill>>

AdvisoryInit ==
    /\ gate = NoCall
    /\ apiKey \in BOOLEAN
    /\ chains = {}
    /\ call = NoCall
    /\ llm = [pc |-> "idle", params |-> [h \in AdvisoryHandlers |-> ConstructedLlm(h)]]
    /\ form = NoCall
    /\ norm = NoCall
    /\ parse = NoCall
    /\ fill = NoCall

AdvisoryNext == AdvisoryRequest \/ AdvisoryRespond

AdvisorySpec == AdvisoryInit /\ [][AdvisoryNext]_vars

(***************************************************************************)
(* Properties                                                              *)
(***************************************************************************)

ActionHandlers == {"rag_link_search", "rag_form_search", "choose_agency", "chat"}

Served == call.pc = "done" /\ call.classified

RetrievalHandlers == {"rag_link_search", "rag_form_search"}

NoRetrievalCall ==
    /\ \A i \in 1..Len(call.handlers) : call.handlers[i] \notin RetrievalHandlers
    /\ call.retrieval.kind = NoOutcome

\* C1: in every call of smart_chat that reached the classifier, exactly one of
\* rag_link_search, rag_form_search, choose_agency and chat is invoked, for
\* every classifier result, selected agency and turn count.
C1_SingleDispatch ==
    Served => /\ Len(call.handlers) = 1
              /\ call.handlers[1] \in ActionHandlers

\* C1 witness: a classifier result with a response_type the router does not
\* know, an agency already selected, served by exactly the chat handler
C1_Witness ==
    /\ Served
    /\ call.intent.response_type = "summary"
    /\ call.selected_agency # None
    /\ call.conversation_turns = 3
    /\ call.handlers = <<"chat">>

\* C2 (as claimed): for "show me housing policies" classified ragLink / housing /
\* needs_agency false, with a retrieval that returns 3 results and a narration
\* that succeeds, smart_chat answers ragLink with the narration and the 3
\* results, at every turn count.
C2_ScenarioA_Claimed ==
    ( /\ Served
      /\ apiKey
      /\ call.message = MsgShowHousing
      /\ call.intent_reply = "json"
      /\ call.intent.response_type = "ragLink"
      /\ call.intent.category = "housing"
      /\ ~call.intent.needs_agency
      /\ call.retrieval \in {[kind |-> NoOutcome, results |-> <<>>],
                             [kind |-> "ok", results |-> Docs]}
      /\ call.narration \in {NoOutcome, "prose", "json_explanation"} )
    => /\ call.resp.status = 200
       /\ call.resp.response_type = "ragLink"
       /\ call.resp.response = "narration"
       /\ call.resp.results = Docs

\* C3 (as claimed): "I need help" at turn 0 ends in the chat handler with no
\* retrieval call, whatever the classifier returned.
C3_ScenarioB_Claimed ==
    (Served /\ call.message = MsgINeedHelp /\ call.conversation_turns = 0)
    => /\ ~call.should_use_rag
       /\ call.handlers = <<"chat">>
       /\ NoRetrievalCall

\* C3 (amended): "I need help" at turn 0 is refused by the gate and makes no
\* retrieval call; it ends in the chat handler unless the classifier returned
\* agency with needs_agency and no agency is selected, where choose_agency runs.
C3_ScenarioB ==
    (Served /\ call.message = MsgINeedHelp /\ call.conversation_turns = 0)
    => /\ ~call.should_use_rag
       /\ NoRetrievalCall
       /\ call.handlers =
            IF /\ call.intent.response_type = "agency"
               /\ call.intent.needs_agency
               /\ call.selected_agency = None
            THEN <<"choose_agency">>
            ELSE <<"chat">>

\* C3 witness: "I need help" at turn 0, classified ragLink, served by chat
C3_Witness ==
    /\ Served
    /\ call.message = MsgINeedHelp
    /\ call.conversation_turns = 0
    /\ call.intent.response_type = "ragLink"
    /\ call.handlers = <<"chat">>
    /\ call.retrieval.kind = NoOutcome

\* C4: should_trigger_rag returns False, without a completion call, whenever
\* conversation_turns = 0 and the message has at most 3 whitespace-delimited
\* tokens or contains one of the vague keywords, for every response_type.
C4_GateVagueFirstTurn ==
    ( /\ gate.pc = "returned"
      /\ gate.conversation_turns = 0
      /\ \/ SplitLen(gate.message) <= 3
         \/ \E word \in vague_keywords : Contains(Lower(gate.message), word) )
    => /\ gate.out.ret = FALSE
       /\ gate.out.completion_calls = 0

\* C4 witness: a three-token message without a keyword, proposed ragLink,
\* refused at turn 0 with max_turns 5
C4_Witness ==
    /\ gate.pc = "returned"
    /\ gate.conversation_turns = 0
    /\ gate.max_turns = 5
    /\ gate.message = MsgRenew
    /\ gate.response_type = "ragLink"
    /\ gate.out.ret = FALSE

\* C5: should_trigger_rag returns True, without a completion call, whenever
\* conversation_turns >= max_turns and the turn-0 rule does not apply, for
\* every message and response_type.
C5_GateTurnCap ==
    ( /\ gate.pc = "returned"
      /\ gate.conversation_turns >= gate.max_turns
      /\ ~ ( /\ gate.conversation_turns = 0
             /\ \/ SplitLen(gate.message) <= 3
                \/ \E word \in vague_keywords : Contains(Lower(gate.message), word) ) )
    => /\ gate.out.ret = TRUE
       /\ gate.out.completion_calls = 0

\* C5 witness: turn 5 of 5 with a proposed type that rule 4 would refuse
C5_Witness ==
    /\ gate.pc = "returned"
    /\ gate.conversation_turns = 5
    /\ gate.max_turns = 5
    /\ gate.response_type = "agency"
    /\ gate.message = MsgINeedHelp
    /\ gate.out.ret = TRUE

\* C7 (as claimed): once a handler was chosen the turn ends with a
\* conversational response, never with an HTTP error.
C7_AlwaysConversational_Claimed ==
    (Served /\ call.handlers # <<>>)
    => /\ call.resp.status = 200
       /\ call.resp.response # None

\* C8: on every downstream failure (the intent chain cannot be built, the
\* completion failed, the reply does not parse) detect_intent_with_llm returns
\* (None, False, [], "general") and does not raise.
C8_IntentSafeDefault ==
    (Served /\ call.intent_reply # "json")
    => /\ call.intent = SafeDefault
       /\ ~call.intent_raised

\* C8 witness: a reply that is JSON but lacks a required key
C8_Witness ==
    /\ Served
    /\ call.intent_reply = "json_missing_key"
    /\ call.intent = SafeDefault
    /\ call.handlers = <<"chat">>


\* C6: a finished call of SimpleSeaLionLLM._call has not raised and has
\* returned a string: the completion of a request that succeeded, or, when no
\* request on the primary or the fallback model succeeded, the fixed apology.
C6_NeverRaises ==
    llm.pc = "done" =>
        /\ ~llm.raised
        /\ llm.ret \in {Completion, FinalFallbackText}
        /\ (llm.ok_posts = 0 => llm.ret = FinalFallbackText)

\* Both loops ran to their last attempt and every request failed
C6_Witness ==
    /\ llm.pc = "done"
    /\ llm.phase = "fallback"
    /\ llm.max_retries = DefaultRetries
    /\ llm.attempt = llm.max_retries
    /\ llm.ok_posts = 0
    /\ llm.posts >= 2 * (DefaultRetries + 1)
    /\ llm.ret = FinalFallbackText


\* C9: after the deduplication pass of extract_form the returned fields have
\* pairwise different names and are no more than the candidates it was given.
C9_UniqueNames ==
    (form.pc = "done" /\ form.endpoint = "extract_form" /\ form.deduplicated) =>
        LET out == form.resp.fields
        IN  /\ \A i, j \in 1..Len(out) : i < j => out[i].name # out[j].name
            /\ Len(out) <= Len(form.fields_list)

\* Two candidates of one name and different types were both accepted by the
\* loop, and the response still holds fewer fields than candidates
C9_Witness ==
    /\ form.pc = "done"
    /\ form.endpoint = "extract_form"
    /\ form.deduplicated
    /\ \E i, j \in 1..Len(form.all_fields) :
          /\ i < j
          /\ form.all_fields[i].name = form.all_fields[j].name
          /\ form.all_fields[i].type # form.all_fields[j].type
    /\ form.merged_fields = 0
    /\ form.renamed_fields = 0
    /\ Len(form.resp.fields) < Len(form.all_fields)

\* C10: whenever two candidates have the same normalized name and type and
\* distinct non-empty descriptions, the response holds a field of that name
\* and type whose description contains both descriptions.
C10_NoLossOnMerge_Claimed ==
    (form.pc = "done" /\ form.endpoint = "extract_form" /\ form.deduplicated) =>
        \A i, j \in 1..Len(form.all_fields) :
            LET a == form.all_fields[i]
                b == form.all_fields[j]
            IN  (/\ i < j
                 /\ a.name = b.name
                 /\ a.type = b.type
                 /\ a.description # <<>>
                 /\ b.description # <<>>
                 /\ a.description # b.description)
                => \E k \in 1..Len(form.resp.fields) :
                      /\ form.resp.fields[k].name = a.name
                      /\ form.resp.fields[k].type = a.type
                      /\ Contains(form.resp.fields[k].description, a.description)
                      /\ Contains(form.resp.fields[k].description, b.description)


\* C11 (as claimed): every field list answered by extract_form, or by
\* extract_form_fallback when extract_form_preprocessed misses the store, has
\* pairwise different field names.
C11_UniqueNamesEveryPath_Claimed ==
    ( /\ form.pc = "done"
      /\ form.resp.status = 200
      /\ \/ form.endpoint = "extract_form"
         \/ form.endpoint = "extract_form_preprocessed" /\ form.store # "hit" )
    => \A i, j \in 1..Len(form.resp.fields) :
          i < j => form.resp.fields[i].name # form.resp.fields[j].name


\* C12 (as claimed): candidates named "Họ và tên" and "Ho va ten" of one type
\* get the same normalized name, and extract_form answers a single field.
C12_ScenarioC_Claimed ==
    ( /\ form.pc = "done"
      /\ form.endpoint = "extract_form"
      /\ form.deduplicated
      /\ Len(form.fields_list) = 2
      /\ form.fields_list[1].name \in DiacriticNames
      /\ form.fields_list[2].name = NameHoVaTenPlain
      /\ form.fields_list[1].type = form.fields_list[2].type )
    => /\ form.all_fields[1].name = form.all_fields[2].name
       /\ Len(form.resp.fields) = 1


\* C13: normalize_field_name returns a non-empty name for every string,
\* "unnamed_field" for the empty string and for strings made of spaces,
\* underscores and symbols only, and normalizing its result gives the result.
C13_NormalizeIdempotent ==
    /\ norm.pc \in {"once", "twice"} =>
          /\ norm.once # <<>>
          /\ (\A i \in 1..Len(norm.field_name) :
                  norm.field_name[i] \in {" ", "_", "!", "U+1ECD"})
             => norm.once = <<"u", "n", "n", "a", "m", "e", "d", "_",
                              "f", "i", "e", "l", "d">>
    /\ norm.pc = "twice" => norm.twice = norm.once

\* A name that the normalizer changes, normalized twice
C13_Witness ==
    /\ norm.pc = "twice"
    /\ norm.field_name = <<"!", "H", "U+00C0">>
    /\ norm.once = <<"h", "U+00E0">>
    /\ norm.twice = norm.once


\* C14 (as claimed): for every reply whose "fields" array is cut off inside
\* its last object, try_parse_json does not raise and returns the complete
\* objects that precede the cut one.
C14_SalvageTruncated_Claimed ==
    (parse.pc = "returned" /\ parse.reply.kind = "cut_in_last_object")
    => /\ ~parse.out.raised
       /\ parse.out.value.has_fields
       /\ parse.out.value.fields = parse.reply.before

\* C14, within the reach of the last resort: the same, for replies with at
\* least one complete object before the cut one and no closing brace inside
\* the cut one.
C14_SalvageTruncated ==
    ( /\ parse.pc = "returned"
      /\ parse.reply.kind = "cut_in_last_object"
      /\ parse.reply.before # <<>>
      /\ ~parse.reply.tail_brace )
    => /\ ~parse.out.raised
       /\ parse.out.value.has_fields
       /\ parse.out.value.fields = parse.reply.before

\* A reply of one whole object and a second one cut before its closing
\* brace, salvaged by dropping the cut object
C14_Witness ==
    /\ parse.pc = "returned"
    /\ parse.reply.text = <<"{", FieldsKey, "[", "{", KVa, ",", KV1, "}", ",", "{", KVb>>
    /\ parse.out.status.drop_truncated = "ok"
    /\ parse.out.value.fields = <<<<KVa, KV1>>>>

\* C15: the strategies run in the order direct, brace_span, fields_array,
\* drop_truncated: one is reached only when every earlier one failed (or
\* its pattern found nothing), the first success ends the call and supplies
\* the returned value, the call raises only when none succeeded, and a clean
\* reply returns from the direct parse with no other strategy reached.
C15_StrategyOrder ==
    parse.pc = "returned" =>
        LET st == parse.out.status
            Lost(i) == st[Strategies[i]] \in {"failed", "no_match"}
        IN  /\ \A i \in 1..Len(Strategies) :
                   st[Strategies[i]] # "not_reached" => \A j \in 1..(i - 1) : Lost(j)
            /\ \A i \in 1..Len(Strategies) :
                   st[Strategies[i]] = "ok" =>
                       /\ ~parse.out.raised
                       /\ \A j \in (i + 1)..Len(Strategies) :
                              st[Strategies[j]] = "not_reached"
            /\ parse.out.raised <=> \A i \in 1..Len(Strategies) : Lost(i)
            /\ parse.reply.kind = "complete" =>
                   /\ ~parse.out.raised
                   /\ parse.out.value.has_fields => parse.out.value.fields = parse.reply.before
                   /\ st.direct = "ok" \/ st.brace_span = "ok"
            /\ parse.reply.clean =>
                   /\ st.direct = "ok"
                   /\ \A i \in 2..Len(Strategies) : st[Strategies[i]] = "not_reached"

\* A complete reply that follows a sentence of prose: the direct parse fails
\* and the brace span supplies the value
C15_Witness ==
    /\ parse.pc = "returned"
    /\ parse.reply.text = <<Prose>> \o FieldsDoc(<<ObjA, ObjB>>)
    /\ parse.out.status.direct = "failed"
    /\ parse.out.status.brace_span = "ok"
    /\ parse.out.status.fields_array = "not_reached"
    /\ parse.out.value.fields = <<<<KVa, KV1>>, <<KVb>>>>

\* C16: when fill_form has invoked the pipeline and the completion service
\* was unreachable, or its reply cannot be recovered as JSON, fill_form
\* returns without an error a list with one entry per field of the schema,
\* in the order of the schema, every value being ASK_USER.
C16_FillFallback ==
    ( /\ fill.pc = "returned"
      /\ fill.invoked = 1
      /\ \/ fill.result.kind = "unreachable"
         \/ fill.result.kind = "reply" /\ try_parse_json(fill.result.text).raised )
    => /\ fill.error = None
       /\ fill.status_code = 200
       /\ fill.fell_back
       /\ Len(fill.fallback_fields) = Len(fill.form_schema.fields)
       /\ \A i \in 1..Len(fill.fallback_fields) :
              /\ fill.fallback_fields[i].value = "ASK_USER"
              /\ fill.fallback_fields[i].name =
                     (IF fill.form_schema.fields[i] = NoName THEN "unknown"
                      ELSE fill.form_schema.fields[i])

\* The service is unreachable for a schema of two fields
C16_Witness ==
    /\ fill.pc = "returned"
    /\ fill.result.kind = "unreachable"
    /\ fill.form_schema.fields = <<"ho", "ngay_sinh">>
    /\ fill.fallback_fields = <<[name |-> "ho", value |-> "ASK_USER"],
                                [name |-> "ngay_sinh", value |-> "ASK_USER"]>>

\* C17: with the chain built, a schema with no field list or an empty one is
\* rejected with the invalid-schema error, and a valid schema with more than
\* 50 messages with the too-long error, in both cases with no invocation of
\* the pipeline and no ASK_USER list; 50 messages are accepted; the pipeline
\* is only ever invoked for a valid schema and at most 50 messages.
C17_ValidateFirst ==
    LET valid == fill.form_schema.kind = "dict" /\ Len(fill.form_schema.fields) > 0
    IN  /\ (fill.pc = "returned" /\ fill.chain_built) =>
            /\ ~valid =>
                   /\ fill.error = "Invalid form schema"
                   /\ fill.invoked = 0
                   /\ ~fill.fell_back /\ fill.fallback_fields = <<>>
            /\ (valid /\ fill.chat_history > 50) =>
                   /\ fill.error = "Chat history too long"
                   /\ fill.invoked = 0
                   /\ ~fill.fell_back /\ fill.fallback_fields = <<>>
            /\ (valid /\ fill.chat_history <= 50) =>
                   /\ fill.error = None
                   /\ fill.invoked = 1
        /\ fill.pc = "invoking" =>
            /\ valid
            /\ fill.chat_history <= 50
            /\ fill.invoked = 0

\* A valid schema with 51 messages is rejected before the pipeline runs
C17_Witness ==
    /\ fill.pc = "returned"
    /\ fill.chain_built
    /\ fill.form_schema.fields = <<"ho">>
    /\ fill.chat_history = 51
    /\ fill.error = "Chat history too long"
    /\ fill.invoked = 0

\* A history of exactly 50 messages reaches the pipeline
C17_WitnessAccepted ==
    /\ fill.pc = "invoking"
    /\ fill.chat_history = 50
    /\ fill.limited_chat = 10

\* The answer of extract_form to an OCR text that reached the chain (or was
\* blank): status 200 and at least one field, the manual-entry placeholder
\* for text that is blank or cleaned to nothing, the generic field for a
\* reply that is unparseable or has no usable fields
ExtractAnswersWell ==
    /\ form.resp.status = 200
    /\ Len(form.resp.fields) >= 1
    /\ form.form_text = "blank" => form.resp.fields = ManualEntry
    /\ form.form_text = "cleaned_to_nothing" =>
           /\ Len(form.resp.fields) = 1
           /\ form.resp.fields[1].name = ManualEntryField[1].name
    /\ ( /\ form.form_text = "text"
         /\ \/ form.reply.kind \in {"raises", "unreachable"}
            \/ try_parse_json(form.reply.text).raised
            \/ ~try_parse_json(form.reply.text).value.has_fields
            \/ try_parse_json(form.reply.text).value.fields = <<>> )
       => /\ Len(form.resp.fields) = 1
          /\ form.resp.fields[1].name = FormContent

\* C18 (as claimed): for every text and every completion and parse outcome,
\* extract_form answers with at least one field and never with an error.
C18_ExtractNeverFails_Claimed ==
    (form.pc = "done" /\ (form.form_text = "blank" \/ form.chain_built))
    => ExtractAnswersWell

\* C18, for replies whose field names are strings: the same.
ExtractNeverFailsOnStringNames ==
    ( /\ form.pc = "done"
      /\ form.form_text = "blank" \/ form.chain_built
      /\ ~(form.form_text = "text" /\ NormalizeRaises(form.fields_list)) )
    => ExtractAnswersWell

\* C19: in every call that reached the classifier, rag_link_search is called
\* exactly when the classifier returned ragLink and should_trigger_rag
\* returned True, rag_form_search exactly when it returned ragForm and the
\* gate returned True, and a ragLink or ragForm turn that the gate refused
\* is served by chat alone.
C19_RetrievalIffGate ==
    Served =>
        LET Called(h) == \E i \in 1..Len(call.handlers) : call.handlers[i] = h
        IN  /\ Called("rag_link_search") <=>
                   (call.intent.response_type = "ragLink" /\ call.should_use_rag)
            /\ Called("rag_form_search") <=>
                   (call.intent.response_type = "ragForm" /\ call.should_use_rag)
            /\ ( /\ call.intent.response_type \in {"ragLink", "ragForm"}
                 /\ ~call.should_use_rag )
               => call.handlers = <<"chat">> /\ NoRetrievalCall

\* A ragForm turn that the gate allowed reaches rag_form_search
C19_Witness ==
    /\ Served
    /\ call.intent.response_type = "ragForm"
    /\ call.should_use_rag
    /\ call.conversation_turns < max_clarification_turns
    /\ call.handlers = <<"rag_form_search">>

\* A ragLink turn that the gate refused is served by chat
C19_WitnessRefused ==
    /\ Served
    /\ call.intent.response_type = "ragLink"
    /\ ~call.should_use_rag
    /\ call.conversation_turns > 0
    /\ call.handlers = <<"chat">>

\* C20: choose_agency is called exactly when the classifier returned agency
\* with needs_agency and no agency is selected; an agency turn without
\* needs_agency or with an agency selected, a general turn and a turn of an
\* unknown response_type are served by chat alone.
C20_AgencyIff ==
    Served =>
        LET Called(h) == \E i \in 1..Len(call.handlers) : call.handlers[i] = h
            offer == /\ call.intent.response_type = "agency"
                     /\ call.intent.needs_agency
                     /\ call.selected_agency \in {None, ""}
        IN  /\ Called("choose_agency") <=> offer
            /\ offer => call.handlers = <<"choose_agency">>
            /\ (~offer /\ call.intent.response_type \notin {"ragLink", "ragForm"})
               => call.handlers = <<"chat">>

\* An agency turn with needs_agency and an agency already selected is served
\* by chat
C20_Witness ==
    /\ Served
    /\ call.intent.response_type = "agency"
    /\ call.intent.needs_agency
    /\ call.selected_agency = "Housing Department"
    /\ call.handlers = <<"chat">>

\* The same turn with no agency selected reaches choose_agency
C20_WitnessOffered ==
    /\ Served
    /\ call.intent.response_type = "agency"
    /\ call.intent.needs_agency
    /\ call.selected_agency = None
    /\ call.handlers = <<"choose_agency">>

\* C21 (as claimed): when conversation_turns is at least 1 and below
\* max_turns, should_trigger_rag makes exactly one completion call and
\* returns True exactly when the reply of the service contains yes.
C21_ConfidenceCheck_Claimed ==
    ( /\ gate.pc = "returned"
      /\ gate.conversation_turns >= 1
      /\ gate.conversation_turns < gate.max_turns )
    => /\ gate.out.completion_calls = 1
       /\ gate.out.ret = Contains(Lower(gate.reply), <<"y", "e", "s">>)

\* C22: when the confidence check fails, should_trigger_rag returns True
\* exactly when the proposed type is ragLink or ragForm and
\* conversation_turns is at least 2, and it makes no completion call that
\* could have answered.
C22_GateFallback ==
    (gate.pc = "returned" /\ gate.out.rule = "fallback")
    => /\ gate.out.ret = ( /\ gate.response_type \in {"ragLink", "ragForm"}
                           /\ gate.conversation_turns >= 2 )
       /\ gate.out.ret \in BOOLEAN
       /\ gate.out.completion_calls = 0

\* The check fails at turn 2 of 5 for a ragForm proposal: True
C22_Witness ==
    /\ gate.pc = "returned"
    /\ gate.out.rule = "fallback"
    /\ gate.response_type = "ragForm"
    /\ gate.conversation_turns = 2
    /\ gate.max_turns = 5
    /\ gate.out.ret = TRUE

\* The check fails at turn 1 for the same proposal: False
C22_WitnessRefused ==
    /\ gate.pc = "returned"
    /\ gate.out.rule = "fallback"
    /\ gate.response_type = "ragForm"
    /\ gate.conversation_turns = 1
    /\ gate.out.ret = FALSE

\* C23: in a conversation whose context grows by one user message per turn
\* and whose every turn is classified ragLink or ragForm, once the turn whose
\* context holds max_clarification_turns user messages has been served a
\* retrieval handler has been called, at that turn or before.
C23_ClarificationEnds ==
    ( /\ call.pc = "conversation"
      /\ call.turns_served > max_clarification_turns )
    => /\ call.retrieved
       /\ call.retrieved_at <= max_clarification_turns

\* A conversation of vague messages served through the turn with five user
\* messages in its context, with the retrieval made on the way
C23_Witness ==
    /\ call.pc = "conversation"
    /\ call.turns_served = max_clarification_turns + 1
    /\ call.message = MsgHelp
    /\ call.retrieved
    /\ call.handler \in {"rag_link_search", "rag_form_search"}

\* C24 (as claimed): in a call of _call with the default retry count whose
\* requests so far all failed with a transport error or a 5xx answer, the
\* primary model has been attempted at most max_retries times.
C24_PrimaryAttempts_Claimed ==
    ( /\ llm.pc # "idle"
      /\ llm.max_retries = DefaultRetries
      /\ llm.retryable_only )
    => llm.primary_attempts <= llm.max_retries

\* C25 (as claimed): within one attempt an invalid-model answer is followed
\* by at most one further request, to the alternative model.
C25_OneAlternativeRetry_Claimed ==
    llm.pc # "idle" => llm.depth <= 1

\* C26 (as claimed): across the calls of _call made by one process, once a
\* listing has been obtained from GET /models the endpoint is requested at
\* most once more.
C26_ListingCached_Claimed ==
    ProcessOf(llm).requeries <= 1

\* C27: the completion parameters used while serving a chat or agency request
\* depend only on that request's own settings; a request that supplies no
\* settings runs with the handler's defaults whatever earlier requests
\* supplied to the shared instance (the claim as written; the code violates it)
C27_OwnSettingsOnly_Claimed ==
    (call.pc = "done" /\ "used" \in DOMAIN call)
        => \A i \in 1..Len(call.used) :
              call.used[i] = OwnParameters(call.handler, call.settings)

\* C29: ChatChain.chat makes a single completion call per turn for every
\* reply of the completion service, a reply that does not parse included
\* (the claim as written; the code violates it)
C29_SingleCompletionCall_Claimed ==
    (call.pc = "done" /\ "used" \in DOMAIN call /\ call.handler = "chat"
        /\ call.got_chain)
        => Len(call.used) = 1

\* C28 (as claimed): every candidate handed to the deduplication of
\* extract_form either appears in the returned list, under its name or under
\* its name with an integer suffix, or has a non-empty description that was
\* appended to the description of a returned field; candidates removed by the
\* final uniqueness pass included.
C28_NoSilentLoss_Claimed ==
    (form.pc = "done" /\ form.endpoint = "extract_form" /\ form.deduplicated) =>
        \A i \in 1..Len(form.all_fields) :
            LET c == form.all_fields[i]
                out == form.resp.fields
            IN  \/ \E k \in 1..Len(out) :
                      /\ out[k].type = c.type
                      /\ \/ out[k].name = c.name
                         \/ \E n \in 1..Len(form.all_fields) :
                               out[k].name = Suffixed(c.name, n)
                \/ /\ c.description # <<>>
                   /\ \E k \in 1..Len(out) :
                         Contains(out[k].description, c.description)

\* C30: in a document or form lookup turn whose retrieval returned, the
\* narration is asked for exactly once when there is at least one result and
\* not at all when there is none; with no result the answer is the fixed
\* nothing-found response, status 200, an empty result list and the
\* response_type of the lookup.
C30_NarrationOnce ==
    ( /\ call.pc = "done"
      /\ "handlers" \in DOMAIN call
      /\ call.handlers \in {<<"rag_link_search">>, <<"rag_form_search">>} ) =>
        LET search == IF call.handlers = <<"rag_link_search">>
                      THEN rag_link_search(call.retrieval)
                      ELSE rag_form_search(call.retrieval)
        IN  /\ (~search.raised /\ search.results # <<>>) => call.explain_calls = 1
            /\ (~search.raised /\ search.results = <<>>) =>
                  /\ call.explain_calls = 0
                  /\ call.resp = Response(200, call.response_type, "nothing_found",
                                          <<>>, None)
                  /\ call.response_type \in {"ragLink", "ragForm"}

\* A lookup found documents and the narration was asked for once and answered
C30_Witness ==
    /\ call.pc = "done"
    /\ "handlers" \in DOMAIN call
    /\ call.handlers = <<"rag_link_search">>
    /\ rag_link_search(call.retrieval).results # <<>>
    /\ call.explain_calls = 1
    /\ call.resp.status = 200
    /\ call.resp.results # <<>>

\* A form lookup found nothing: no narration, the nothing-found response
C30_WitnessNothingFound ==
    /\ call.pc = "done"
    /\ "handlers" \in DOMAIN call
    /\ call.handlers = <<"rag_form_search">>
    /\ rag_form_search(call.retrieval).results = <<>>
    /\ call.explain_calls = 0
    /\ call.resp = Response(200, "ragForm", "nothing_found", <<>>, None)

====
